---- MODULE Spec2Model ----
(***************************************************************************)
(* Token visibility (fvtt-token-visibility): range test, line-of-sight     *)
(* area test and constrained token shape, modelled from                    *)
(* src/scripts/module.js.                                                  *)
(*                                                                         *)
(* Geometry is on an integer grid.  A point is <<x, y>>, a rectangle is a  *)
(* PIXI.Rectangle [x, y, w, h] (left = x, right = x + w, top = y,          *)
(* bottom = y + h), a polygon is the sequence of its points, closed (the   *)
(* last point repeats the first), as the sweep algorithm of the host       *)
(* returns it.  Areas are doubled so that the shoelace area of a polygon   *)
(* with integer vertices is an integer; ratios are unchanged by that.      *)
(***************************************************************************)
EXTENDS Integers, Sequences, FiniteSets, TLC

VARIABLES
    settings,      \* the module settings: percentArea (LOS.PERCENT_AREA, in tenths)
    walls,         \* canvas.walls: the walls of the scene
    token,         \* the target token: bounds, elevations, _constrainedTokenShape
    source,        \* the vision source: position, elevation, radius, los
    sweep,         \* what ClockwiseSweepPolygon computes for the token in this scene
    call           \* the invocation under way or last returned: arguments, result, trace

vars == <<settings, walls, token, source, sweep, call>>

----------------------------------------------------------------------------
(* Bounds of the model *)

MaxPos == 1        \* token.bounds.x, token.bounds.y in 0 .. MaxPos
MaxSize == 2       \* token.bounds.width, height in 1 .. MaxSize
MaxWalls == 2      \* walls in a scene
MaxPolyPts == 4    \* vertices of a swept polygon (3 .. MaxPolyPts)

Coords == 0 .. (MaxPos + MaxSize)
Points == Coords \X Coords

----------------------------------------------------------------------------
(* Numbers *)

Abs(n) == IF n < 0 THEN -n ELSE n

\* Math.ceil(num / den) for den > 0 ( \div rounds towards minus infinity )
CeilDiv(num, den) == -((-num) \div den)

----------------------------------------------------------------------------
(* Rectangles (PIXI.Rectangle) *)

Rect(x, y, w, h) == [x |-> x, y |-> y, w |-> w, h |-> h]
Left(r) == r.x
Right(r) == r.x + r.w
Top(r) == r.y
Bottom(r) == r.y + r.h

\* PIXI.Rectangle.prototype.pad(paddingX, paddingY)
Pad(r, px, py) == Rect(r.x - px, r.y - py, r.w + 2 * px, r.h + 2 * py)

\* PIXI.Rectangle.prototype.overlaps: the rectangles share at least a point
Overlaps(r, q) ==
    /\ Right(q) >= Left(r)
    /\ Left(q) <= Right(r)
    /\ Bottom(q) >= Top(r)
    /\ Top(q) <= Bottom(r)

\* The integer points of a rectangle, its edges included
PointsIn(r) == (Left(r) .. Right(r)) \X (Top(r) .. Bottom(r))

\* 2 * area of a rectangle
RectArea2(r) == 2 * r.w * r.h

----------------------------------------------------------------------------
(* Segments *)

\* foundry.utils.orient2dFast: > 0 when c is to one side of a -> b, 0 when collinear
orient2dFast(a, b, c) ==
    (a[2] - c[2]) * (b[1] - c[1]) - (a[1] - c[1]) * (b[2] - c[2])

\* foundry.utils.lineSegmentIntersects, the function constrainedTokenShape and
\* sourceIntersectsBounds pass as intersectFn: collinear segments do not
\* intersect; a segment that only touches the other with an endpoint does.
lineSegmentIntersects(a, b, c, d) ==
    LET xa == orient2dFast(a, b, c)
        xb == orient2dFast(a, b, d)
    IN  IF xa = 0 /\ xb = 0 THEN FALSE
        ELSE /\ xa * xb <= 0
             /\ orient2dFast(c, d, a) * orient2dFast(c, d, b) <= 0

\* PIXI.Rectangle.prototype._getZone: the Cohen-Sutherland zone of a point,
\* empty for a point inside the rectangle or on its edges
getZone(r, p) ==
    (IF p[1] < Left(r) THEN {"LEFT"} ELSE IF p[1] > Right(r) THEN {"RIGHT"} ELSE {})
    \cup
    (IF p[2] < Top(r) THEN {"TOP"} ELSE IF p[2] > Bottom(r) THEN {"BOTTOM"} ELSE {})

\* PIXI.Rectangle.prototype.lineSegmentIntersects(a, b, { inside, intersectFn })
\* with intersectFn = foundry.utils.lineSegmentIntersects
RectLineSegmentIntersects(r, a, b, inside) ==
    LET zoneA == getZone(r, a)
        zoneB == getZone(r, b)
        lt == <<Left(r), Top(r)>>
        rt == <<Right(r), Top(r)>>
        lb == <<Left(r), Bottom(r)>>
        rb == <<Right(r), Bottom(r)>>
    IN  IF zoneA = {} /\ zoneB = {} THEN inside           \* both points inside
        ELSE IF zoneA \cap zoneB # {} THEN FALSE          \* both in one outside zone
        ELSE IF zoneA = {} \/ zoneB = {} THEN TRUE        \* one inside, one outside
        ELSE \/ "LEFT" \in zoneA /\ lineSegmentIntersects(lt, lb, a, b)
             \/ "RIGHT" \in zoneA /\ lineSegmentIntersects(rt, rb, a, b)
             \/ "TOP" \in zoneA /\ lineSegmentIntersects(lt, rt, a, b)
             \/ "BOTTOM" \in zoneA /\ lineSegmentIntersects(lb, rb, a, b)

----------------------------------------------------------------------------
(* Walls *)

\* Number.POSITIVE_INFINITY, above every elevation of the model; the negative
\* infinity is -Infinity
Infinity == 1000

\* isFinite(z)
isFinite(z) == z # Infinity /\ z # -Infinity

\* A wall: endpoints A, B and the elevations wall.bottomZ, wall.topZ
Wall(a, b, bottomZ, topZ) == [A |-> a, B |-> b, bottomZ |-> bottomZ, topZ |-> topZ]

\* Wall.prototype.bounds, the rectangle the quadtree holds for a wall
WallBounds(w) ==
    LET x0 == IF w.A[1] < w.B[1] THEN w.A[1] ELSE w.B[1]
        y0 == IF w.A[2] < w.B[2] THEN w.A[2] ELSE w.B[2]
    IN  Rect(x0, y0, Abs(w.A[1] - w.B[1]), Abs(w.A[2] - w.B[2]))

\* canvas.walls.quadtree.getObjects(bbox): the walls whose bounds overlap bbox
QuadtreeGetObjects(ws, bbox) == {w \in ws : Overlaps(bbox, WallBounds(w))}

----------------------------------------------------------------------------
(* Number.prototype.almostEqual, on rationals n1/d1 and n2/d2 (d1, d2 > 0):  *)
(* |n1/d1 - n2/d2| < EPSILON, with EPSILON = 1 / EpsilonInv.  Written without *)
(* the product by EpsilonInv, which does not fit the model checker's integers.*)

EpsilonInv == 100000000

almostEqualQ(n1, d1, n2, d2) ==
    Abs(n1 * d2 - n2 * d1) <= ((d1 * d2) - 1) \div EpsilonInv

almostEqual(a, b) == almostEqualQ(a, 1, b, 1)

----------------------------------------------------------------------------
(* Polygons *)

\* The rectangle as the closed polygon the sweep returns for an unobstructed
\* boundary: four corners, clockwise from the top left, and the first again
RectPolygon(r) ==
    << <<Left(r), Top(r)>>, <<Right(r), Top(r)>>, <<Right(r), Bottom(r)>>,
       <<Left(r), Bottom(r)>>, <<Left(r), Top(r)>> >>

\* polygon.points.length: the coordinates of the points, two a point
PointsLength(poly) == 2 * Len(poly)

\* polygon.iteratePoints({ close: false }): the points without the closing one
IteratePoints(poly) == {poly[i] : i \in 1 .. (Len(poly) - 1)}

\* Shoelace sum of the closed polygon from its i-th edge on
RECURSIVE ShoelaceFrom(_, _)
ShoelaceFrom(poly, i) ==
    IF i >= Len(poly) THEN 0
    ELSE (poly[i][1] * poly[i + 1][2] - poly[i + 1][1] * poly[i][2])
         + ShoelaceFrom(poly, i + 1)

\* 2 * polygon.area()
PolygonArea2(poly) == Abs(ShoelaceFrom(poly, 1))

\* Point order used to list each polygon once, from its least point
PointLess(p, q) == p[1] < q[1] \/ (p[1] = q[1] /\ p[2] < q[2])

\* The closed polygons of n distinct vertices among the integer points of r,
\* each listed from its least vertex
ClosedPolygons(r, n) ==
    LET pts == PointsIn(r)
        open == {s \in [1 .. n -> pts] :
                    /\ \A i, j \in 1 .. n : i < j => s[i] # s[j]
                    /\ \A i \in 2 .. n : PointLess(s[1], s[i])}
    IN  {s \o <<s[1]>> : s \in open}

----------------------------------------------------------------------------
(* constrainedTokenShape, module.js 624-668 *)

ScaleOne == 10   \* boundsScale is in tenths: 10 is the scale 1

\* lines 628-634: the token bounds, padded when boundsScale is not 1
ScaledBounds(bounds, boundsScale) ==
    IF boundsScale # ScaleOne
    THEN Pad(bounds,
             CeilDiv(bounds.w * (boundsScale - ScaleOne), ScaleOne),
             CeilDiv(bounds.h * (boundsScale - ScaleOne), ScaleOne))
    ELSE bounds

\* lines 641-642: the wall intersects the bbox or is inside it
WallIntersectsBounds(bbox, w) == RectLineSegmentIntersects(bbox, w.A, w.B, TRUE)

\* lines 645-649: the wall is in line with a boundary edge
InLineWithEdge(bbox, w) ==
    \/ w.A[1] = w.B[1] /\ (w.A[1] = Left(bbox) \/ w.A[1] = Right(bbox))
    \/ w.A[2] = w.B[2] /\ (w.A[2] = Top(bbox) \/ w.A[2] = Bottom(bbox))

\* lines 641-649: the walls left by the two filters
FilterWalls(bbox, ws) ==
    {w \in ws : WallIntersectsBounds(bbox, w) /\ ~InLineWithEdge(bbox, w)}

\* lines 660-665: the swept polygon is taken for the unconstrained bbox
StillUnconstrained(poly, bbox) ==
    /\ PointsLength(poly) = 10
    /\ \A pt \in IteratePoints(poly) :
          /\ almostEqual(pt[1], Left(bbox)) \/ almostEqual(pt[1], Right(bbox))
          /\ almostEqual(pt[1], Top(bbox)) \/ almostEqual(pt[2], Bottom(bbox))

RectShape(r) == [type |-> "Rectangle", rect |-> r]
PolygonShape(poly) == [type |-> "Polygon", points |-> poly]

\* constrainedTokenShape without the second early return (line 651): the sweep
\* runs although the filters left no wall
constrainedTokenShapeNoSecondReturn(bounds, boundsScale, ws, swept) ==
    LET bbox == ScaledBounds(bounds, boundsScale)
        queried == QuadtreeGetObjects(ws, bbox)
        kept == FilterWalls(bbox, queried)
        out(shape, ran) == [shape |-> shape, bbox |-> bbox, queried |-> queried,
                            kept |-> kept, sweepRan |-> ran]
    IN  IF queried = {} THEN out(RectShape(bbox), FALSE)
        ELSE IF StillUnconstrained(swept, bbox) THEN out(RectShape(bbox), TRUE)
        ELSE out(PolygonShape(swept), TRUE)

\* constrainedTokenShape(token, { boundsScale }): the shape returned, with the
\* bbox used, the walls the quadtree returned, the walls the filters left and
\* whether the sweep was run.  swept is what the sweep computes when it runs.
constrainedTokenShape(bounds, boundsScale, ws, swept) ==
    LET bbox == ScaledBounds(bounds, boundsScale)
        queried == QuadtreeGetObjects(ws, bbox)
        kept == FilterWalls(bbox, queried)
        out(shape, ran) == [shape |-> shape, bbox |-> bbox, queried |-> queried,
                            kept |-> kept, sweepRan |-> ran]
    IN  IF queried = {} THEN out(RectShape(bbox), FALSE)
        ELSE IF kept = {} THEN out(RectShape(bbox), FALSE)
        ELSE IF StillUnconstrained(swept, bbox) THEN out(RectShape(bbox), TRUE)
        ELSE out(PolygonShape(swept), TRUE)

----------------------------------------------------------------------------
(* State shared by the specifications *)

Undefined == [type |-> "undefined"]

\* A token: token.bounds, token.bottomZ, token.topZ, token._constrainedTokenShape
Token(bounds, bottomZ, topZ) ==
    [bounds |-> bounds, bottomZ |-> bottomZ, topZ |-> topZ, shape |-> Undefined]

\* The settings read with getSetting: LOS.PERCENT_AREA in tenths, 0 .. 10
Settings(p) == [percentArea |-> p]

\* A vision source: visionSource.x, .y, .elevationZ and the radius
\* visionSource.object.getLightRadius(mode.range) gives for the mode tested
\* and its line-of-sight polygon visionSource.los
Source(x, y, z, radius, los) ==
    [x |-> x, y |-> y, elevationZ |-> z, radius |-> radius, los |-> los]

\* new PIXI.Polygon(): no points
EmptyPolygon == PolygonShape(<<>>)

NoSource == Source(0, 0, 0, 0, EmptyPolygon)

TokenBoundsSet ==
    {Rect(x, y, w, h) : x \in 0 .. MaxPos, y \in 0 .. MaxPos,
                        w \in 1 .. MaxSize, h \in 1 .. MaxSize}

\* The walls of the grid, each segment once, of full height
Segments ==
    {Wall(ab[1], ab[2], -Infinity, Infinity) :
        ab \in {pq \in Points \X Points : PointLess(pq[1], pq[2])}}

\* The sets of at most k walls
WallSetsUpTo(k) ==
    UNION {{{f[i] : i \in 1 .. n} : f \in [1 .. n -> Segments]} : n \in 0 .. k}

----------------------------------------------------------------------------
(* SpecShape: constrainedTokenShape(token, { boundsScale }) called on a scene *)

ScaleSet == {5, ScaleOne, 15}

\* The polygons the sweep may compute from the token centre within bbox when
\* some wall is left by the filters (a wall need not block sight, so the
\* polygon may be the whole bbox); without such a wall it is the bbox.
FewPolygons(bbox) ==
    {RectPolygon(bbox),
     << <<Left(bbox), Top(bbox)>>, <<Right(bbox), Top(bbox)>>,
        <<Right(bbox), Bottom(bbox)>>, <<Left(bbox), Top(bbox)>> >>}

ManyPolygons(bbox) == UNION {ClosedPolygons(bbox, n) : n \in 3 .. MaxPolyPts}

SweepChoices(bbox, ws, family) ==
    IF FilterWalls(bbox, QuadtreeGetObjects(ws, bbox)) = {}
    THEN {RectPolygon(bbox)}
    ELSE family

PendingShape(boundsScale) ==
    [op |-> "constrainedTokenShape", state |-> "pending", boundsScale |-> boundsScale]

InitShape ==
    \* Scenes with many walls, boundsScale 1
    \/ /\ settings = Settings(0)
       /\ source = NoSource
       /\ \E b \in TokenBoundsSet : token = Token(b, 0, 0)
       /\ walls \in WallSetsUpTo(MaxWalls)
       /\ sweep \in SweepChoices(token.bounds, walls, FewPolygons(token.bounds))
       /\ call = PendingShape(ScaleOne)
    \* Scenes with one wall across the token and many swept polygons, boundsScale 1
    \/ /\ settings = Settings(0)
       /\ source = NoSource
       /\ \E b \in TokenBoundsSet : token = Token(b, 0, 0)
       /\ walls = {Wall(<<Left(token.bounds), Top(token.bounds)>>,
                        <<Right(token.bounds), Bottom(token.bounds)>>, -Infinity, Infinity)}
       /\ sweep \in SweepChoices(token.bounds, walls, ManyPolygons(token.bounds))
       /\ call = PendingShape(ScaleOne)
    \* Scenes with at most one wall, boundsScale other than 1
    \/ /\ settings = Settings(0)
       /\ source = NoSource
       /\ \E b \in TokenBoundsSet : token = Token(b, 0, 0)
       /\ walls \in WallSetsUpTo(1)
       /\ \E s \in ScaleSet \ {ScaleOne} :
             /\ sweep \in SweepChoices(ScaledBounds(token.bounds, s), walls,
                                       FewPolygons(ScaledBounds(token.bounds, s)))
             /\ call = PendingShape(s)

\* The host calls constrainedTokenShape(token, { boundsScale })
ConstrainedTokenShapeCall ==
    /\ call.op = "constrainedTokenShape"
    /\ call.state = "pending"
    /\ call' = [op |-> "constrainedTokenShape", state |-> "returned",
                boundsScale |-> call.boundsScale,
                ret |-> constrainedTokenShape(token.bounds, call.boundsScale, walls, sweep)]
    /\ UNCHANGED <<settings, walls, token, source, sweep>>

NextShape == ConstrainedTokenShapeCall

SpecShape == InitShape /\ [][NextShape]_vars

ShapeReturned == call.op = "constrainedTokenShape" /\ call.state = "returned"

\* The point lies on an edge of the rectangle
OnEdges(pt, r) ==
    \/ (pt[1] = Left(r) \/ pt[1] = Right(r)) /\ Top(r) <= pt[2] /\ pt[2] <= Bottom(r)
    \/ (pt[2] = Top(r) \/ pt[2] = Bottom(r)) /\ Left(r) <= pt[1] /\ pt[1] <= Right(r)

\* The point p of the rectangle stays in the rectangle when moved a little
\* towards q
StaysInside(p, q, r) ==
    /\ \/ Left(r) < p[1] /\ p[1] < Right(r)
       \/ p[1] = Left(r) /\ q[1] >= p[1] /\ Left(r) < Right(r)
       \/ p[1] = Right(r) /\ q[1] <= p[1] /\ Left(r) < Right(r)
       \/ Left(r) = Right(r) /\ p[1] = Left(r) /\ q[1] = p[1]
    /\ \/ Top(r) < p[2] /\ p[2] < Bottom(r)
       \/ p[2] = Top(r) /\ q[2] >= p[2] /\ Top(r) < Bottom(r)
       \/ p[2] = Bottom(r) /\ q[2] <= p[2] /\ Top(r) < Bottom(r)
       \/ Top(r) = Bottom(r) /\ p[2] = Top(r) /\ q[2] = p[2]

\* The wall merely touches the rectangle: one endpoint lies on an edge, the
\* other outside, and no other point of the wall is in the rectangle
TouchesAtEndpoint(w, r) ==
    \/ OnEdges(w.A, r) /\ getZone(r, w.B) # {} /\ ~StaysInside(w.A, w.B, r)
    \/ OnEdges(w.B, r) /\ getZone(r, w.A) # {} /\ ~StaysInside(w.B, w.A, r)

\* The wall lies on the line of an edge of the rectangle
ColinearWithEdge(w, r) ==
    \/ w.A[1] = w.B[1] /\ w.A[1] \in {Left(r), Right(r)}
    \/ w.A[2] = w.B[2] /\ w.A[2] \in {Top(r), Bottom(r)}

\* C8: constrainedTokenShape returns the token's boundary rectangle itself,
\* without running the sweep, whenever the wall query returns no wall or the
\* filters leave no wall; with scale 1 the boundary is the token's bounds, so
\* with no walls the result equals the rectangle R of the token.
C8_NoWallReturnsBounds ==
    ShapeReturned =>
        /\ (call.ret.queried = {} \/ call.ret.kept = {}) =>
              /\ call.ret.shape = RectShape(call.ret.bbox)
              /\ ~call.ret.sweepRan
        /\ call.boundsScale = ScaleOne => call.ret.bbox = token.bounds
        /\ (call.boundsScale = ScaleOne /\ walls = {}) =>
              call.ret.shape = RectShape(token.bounds)

\* A wall was returned by the query, the filters left none, and the bounds
\* came back without a sweep
C8_Witness ==
    /\ ShapeReturned
    /\ call.ret.queried # {}
    /\ call.ret.kept = {}
    /\ call.ret.shape = RectShape(token.bounds)
    /\ ~call.ret.sweepRan

\* The polygon cannot be told from the rectangle: every vertex lies on the
\* rectangle's edges and it covers the rectangle
Indistinguishable(poly, r) ==
    /\ \A pt \in IteratePoints(poly) : OnEdges(pt, r)
    /\ PolygonArea2(poly) = RectArea2(r)

\* C9: with a wall left by the filters, constrainedTokenShape returns the
\* rectangle when the swept polygon cannot be told from the boundary rectangle
\* (every vertex lies on the rectangle's own edges), whatever the rectangle's
\* position and size, and the polygon when some vertex lies off the edges.
C9_CollapseToRectangle ==
    (ShapeReturned /\ call.ret.kept # {}) =>
        /\ Indistinguishable(sweep, call.ret.bbox)
              => call.ret.shape = RectShape(call.ret.bbox)
        /\ (\E pt \in IteratePoints(sweep) : ~OnEdges(pt, call.ret.bbox))
              => call.ret.shape = PolygonShape(sweep)

\* C10: a wall that merely touches a boundary edge with an endpoint, and a
\* wall colinear with a boundary edge, are never left by the filters; if every
\* queried wall is of these kinds the rectangle is returned.
C10_TouchingWallsExcluded ==
    ShapeReturned =>
        /\ \A w \in call.ret.queried :
              (TouchesAtEndpoint(w, call.ret.bbox) \/ ColinearWithEdge(w, call.ret.bbox))
                  => w \notin call.ret.kept
        /\ (\A w \in call.ret.queried :
              TouchesAtEndpoint(w, call.ret.bbox) \/ ColinearWithEdge(w, call.ret.bbox))
              => call.ret.shape = RectShape(call.ret.bbox)

----------------------------------------------------------------------------
(* SpecRange: _testRangeDetectionMode, module.js 356-373 *)

MaxElev == 2       \* elevations (z) in 0 .. MaxElev
MaxRadius == 3     \* light radius in 0 .. MaxRadius

\* line 369 with < for <=
InRange3dStrict(dx, dy, dz, radius) ==
    ((dx * dx) + (dy * dy) + (dz * dz)) < (radius * radius)

\* line 369
InRange3d(dx, dy, dz, radius) ==
    ((dx * dx) + (dy * dy) + (dz * dz)) <= (radius * radius)

\* _testRangeDetectionMode that goes on to the 3d test whatever the 2d test gave
testRangeDetectionModeNo2dCheck(targetIsToken, inRange, point, src) ==
    IF ~targetIsToken
    THEN [result |-> inRange, radiusRead |-> FALSE, tested3d |-> FALSE]
    ELSE [result |-> InRange3d(point[1] - src.x, point[2] - src.y,
                               point[3] - src.elevationZ, src.radius),
          radiusRead |-> TRUE, tested3d |-> TRUE]

\* _testRangeDetectionMode(wrapper, visionSource, mode, target, test): inRange
\* is what the wrapped 2d test returned.  The result, whether getLightRadius
\* was read and whether the 3d distance was compared.
testRangeDetectionMode(targetIsToken, inRange, point, src) ==
    IF ~targetIsToken \/ ~inRange
    THEN [result |-> inRange, radiusRead |-> FALSE, tested3d |-> FALSE]
    ELSE [result |-> InRange3d(point[1] - src.x, point[2] - src.y,
                               point[3] - src.elevationZ, src.radius),
          radiusRead |-> TRUE, tested3d |-> TRUE]

InitRange ==
    /\ settings = Settings(0)
    /\ walls = {}
    /\ token = Token(Rect(0, 0, 1, 1), 0, 0)
    /\ sweep = RectPolygon(token.bounds)
    /\ \E x \in 0 .. MaxPos, y \in 0 .. MaxPos, z \in 0 .. MaxElev, r \in 0 .. MaxRadius :
          source = Source(x, y, z, r, EmptyPolygon)
    /\ \E isToken \in BOOLEAN, inRange \in BOOLEAN, pt \in Coords \X Coords \X (0 .. MaxElev) :
          call = [op |-> "_testRangeDetectionMode", state |-> "pending",
                  targetIsToken |-> isToken, inRange2d |-> inRange, point |-> pt]

\* The host's DetectionMode._testPoint calls the wrapped _testRange
TestRangeDetectionModeCall ==
    /\ call.op = "_testRangeDetectionMode"
    /\ call.state = "pending"
    /\ call' = [call EXCEPT !.state = "returned"] @@
               [ret |-> testRangeDetectionMode(call.targetIsToken, call.inRange2d,
                                               call.point, source)]
    /\ UNCHANGED <<settings, walls, token, source, sweep>>

NextRange == TestRangeDetectionModeCall

SpecRange == InitRange /\ [][NextRange]_vars

RangeReturned == call.op = "_testRangeDetectionMode" /\ call.state = "returned"

\* Squared 3d distance from the vision source to the test point of the call
Dist2 ==
    (call.point[1] - source.x) * (call.point[1] - source.x)
    + (call.point[2] - source.y) * (call.point[2] - source.y)
    + (call.point[3] - source.elevationZ) * (call.point[3] - source.elevationZ)

\* C5: _testRangeDetectionMode returns false whenever the wrapped 2d range
\* test returned false, without reading the light radius or computing the 3d
\* distance; so a true result implies the 2d test was true.
C5_Range2dFailureShortCircuits ==
    RangeReturned =>
        /\ ~call.inRange2d =>
              /\ call.ret.result = FALSE
              /\ ~call.ret.radiusRead
              /\ ~call.ret.tested3d
        /\ call.ret.result = TRUE => call.inRange2d

\* A Token within the radius in 3d whose 2d test failed: reported out of range
C5_Witness ==
    /\ RangeReturned
    /\ call.targetIsToken
    /\ ~call.inRange2d
    /\ Dist2 <= source.radius * source.radius
    /\ call.ret.result = FALSE

\* C6: for a Token whose 2d range test succeeded the result is true iff
\* dx*dx + dy*dy + dz*dz <= radius*radius (a point at distance radius exactly
\* is in range); for another target the 2d result is returned unchanged.
C6_Range3dInclusive ==
    RangeReturned =>
        /\ (call.targetIsToken /\ call.inRange2d) =>
              (call.ret.result <=> Dist2 <= source.radius * source.radius)
        /\ ~call.targetIsToken => call.ret.result = call.inRange2d

\* A Token exactly at distance radius, above or below the source: in range
C6_Witness ==
    /\ RangeReturned
    /\ call.targetIsToken
    /\ call.inRange2d
    /\ call.point[3] # source.elevationZ
    /\ source.radius > 0
    /\ Dist2 = source.radius * source.radius
    /\ call.ret.result = TRUE

----------------------------------------------------------------------------
(* SpecAreaTest: areaTest, module.js 482-534, over the values the geometry
   library hands it.  An area is a whole number seen of units of 1/areaUnit. *)

MaxArea == 100     \* areas of 0 .. MaxArea units
MaxTiny == 12      \* areas of 0 .. MaxTiny units when the unit is below EPSILON

\* settings.js 179-183: PERCENT_AREA ranges over 0, 0.1, ..., 1, kept in tenths
PercentOne == 10

PercentAreas == 0 .. PercentOne

\* lines 501 and 504 with the zero tests dropped
IsZeroAreaNever(n, areaUnit) == FALSE

\* lines 501 and 504: !area || area.almostEqual(0), for the area n / areaUnit
IsZeroArea(n, areaUnit) == n = 0 \/ almostEqualQ(n, areaUnit, 0, 1)

\* line 507 with the strict comparison only
PercentSeenSufficesStrict(seenArea, tokenArea, p) ==
    seenArea * PercentOne > p * tokenArea

\* lines 506-507: percentSeen = seenArea / tokenArea;
\* percentSeen > percentArea || percentSeen.almostEqual(percentArea)
PercentSeenSuffices(seenArea, tokenArea, p) ==
    \/ seenArea * PercentOne > p * tokenArea
    \/ almostEqualQ(seenArea, tokenArea, p, PercentOne)

\* areaTest(los, constrainedTokenShape) with percentArea = p / PercentOne.
\* isPaths: los, simplified when p is 0, is still a ClipperPaths (line 491);
\* crosses: what sourceIntersectsPolygonBounds gives (line 492); seenArea and
\* tokenArea: the areas of lines 500 and 503, in units of 1/areaUnit.
areaTest(isPaths, crosses, seenArea, tokenArea, areaUnit, p) ==
    IF p = 0 /\ ~isPaths
    THEN [result |-> crosses, path |-> "crossing"]
    ELSE IF IsZeroArea(seenArea, areaUnit)
    THEN [result |-> FALSE, path |-> "ratio"]
    ELSE IF IsZeroArea(tokenArea, areaUnit)
    THEN [result |-> FALSE, path |-> "ratio"]
    ELSE [result |-> PercentSeenSuffices(seenArea, tokenArea, p), path |-> "ratio"]

PendingAreaTest(isPaths, crosses, seenArea, tokenArea, areaUnit) ==
    [op |-> "areaTest", state |-> "pending", isPaths |-> isPaths, crosses |-> crosses,
     seenArea |-> seenArea, tokenArea |-> tokenArea, areaUnit |-> areaUnit]

InitAreaTestScene ==
    /\ walls = {}
    /\ token = Token(Rect(0, 0, 1, 1), 0, 0)
    /\ sweep = RectPolygon(token.bounds)
    /\ source = NoSource

InitAreaTest ==
    \* percentArea is 0 and the line of sight a single polygon: the crossing test
    \/ /\ InitAreaTestScene
       /\ settings = Settings(0)
       /\ \E crosses \in BOOLEAN, seen \in 0 .. MaxTiny, tok \in 0 .. MaxTiny :
             call = PendingAreaTest(FALSE, crosses, seen, tok, 1)
    \* The areas are compared: whole units
    \/ /\ InitAreaTestScene
       /\ \E p \in PercentAreas, isPaths \in BOOLEAN, seen \in 0 .. MaxArea, tok \in 0 .. MaxArea :
             /\ p = 0 => isPaths
             /\ settings = Settings(p)
             /\ call = PendingAreaTest(isPaths, FALSE, seen, tok, 1)
    \* The areas are compared: areas around EPSILON
    \/ /\ InitAreaTestScene
       /\ \E p \in PercentAreas, isPaths \in BOOLEAN, seen \in 0 .. MaxTiny, tok \in 0 .. MaxTiny :
             /\ p = 0 => isPaths
             /\ settings = Settings(p)
             /\ call = PendingAreaTest(isPaths, FALSE, seen, tok, 10 * EpsilonInv)

AreaTestCall ==
    /\ call.op = "areaTest"
    /\ call.state = "pending"
    /\ call' = [call EXCEPT !.state = "returned"] @@
               [ret |-> areaTest(call.isPaths, call.crosses, call.seenArea,
                                 call.tokenArea, call.areaUnit, settings.percentArea)]
    /\ UNCHANGED <<settings, walls, token, source, sweep>>

NextAreaTest == AreaTestCall

SpecAreaTest == InitAreaTest /\ [][NextAreaTest]_vars

AreaTestReturned == call.op = "areaTest" /\ call.state = "returned"

\* The area of n units is below EPSILON
BelowEpsilon(n, areaUnit) == n <= (areaUnit - 1) \div EpsilonInv

\* C1: on the area-ratio path, with an intersection area and a footprint area
\* that are not zero (within EPSILON), areaTest returns true iff the ratio
\* intersection / footprint is at least the required fraction p: 50 of 100 at
\* p = 0.5 is visible, 49 of 100 at p = 0.5 is not.
C1_RatioThresholdInclusive ==
    (/\ AreaTestReturned
     /\ call.ret.path = "ratio"
     /\ ~BelowEpsilon(call.seenArea, call.areaUnit)
     /\ ~BelowEpsilon(call.tokenArea, call.areaUnit)) =>
        /\ call.ret.result <=>
              call.seenArea * PercentOne >= settings.percentArea * call.tokenArea
        /\ (call.seenArea = 50 /\ call.tokenArea = 100 /\ settings.percentArea = 5)
              => call.ret.result = TRUE
        /\ (call.seenArea = 49 /\ call.tokenArea = 100 /\ settings.percentArea = 5)
              => call.ret.result = FALSE

\* 50 of 100 seen with half the area required: visible
C1_Witness ==
    /\ AreaTestReturned
    /\ call.ret.path = "ratio"
    /\ call.areaUnit = 1
    /\ call.seenArea = 50
    /\ call.tokenArea = 100
    /\ settings.percentArea = 5
    /\ call.ret.result = TRUE

\* C7: areaTest returns a boolean on every input, and on the area-ratio path
\* (any p, p = 0 with a multi-contour line of sight included) it returns false
\* when the intersection area is zero or below EPSILON and when the footprint
\* area is zero.
C7_DegenerateAreasNotVisible ==
    AreaTestReturned =>
        /\ call.ret.result \in BOOLEAN
        /\ (/\ call.ret.path = "ratio"
            /\ \/ BelowEpsilon(call.seenArea, call.areaUnit)
               \/ call.tokenArea = 0) => call.ret.result = FALSE

\* p = 0, a line of sight of several contours, nothing of the footprint seen
C7_Witness ==
    /\ AreaTestReturned
    /\ settings.percentArea = 0
    /\ call.isPaths
    /\ call.ret.path = "ratio"
    /\ call.seenArea = 0
    /\ call.tokenArea > 0
    /\ call.ret.result = FALSE

----------------------------------------------------------------------------
(* areaTest on shapes.  Lines of sight and footprints are rectangles with
   corners on the grid, or sets of such rectangles, so that the clipping
   library's intersection and area are counts of grid cells. *)

SceneW == 7        \* the scene is SceneW cells wide
SceneH == 4        \* and SceneH cells high

\* The bounds of the target token: one cell away from the scene's border
TargetBounds == Rect(1, 1, SceneW - 2, SceneH - 2)

SetMin(S) == CHOOSE x \in S : \A y \in S : x <= y

SetMax(S) == CHOOSE x \in S : \A y \in S : x >= y

\* PIXI.Polygon.iterateEdges: the edges <<A, B>> of a closed polygon
IterateEdges(poly) == {<<poly[i], poly[i + 1]>> : i \in 1 .. (Len(poly) - 1)}

\* PIXI.Polygon.getBounds
PolygonBounds(poly) ==
    LET xs == {poly[i][1] : i \in 1 .. Len(poly)}
        ys == {poly[i][2] : i \in 1 .. Len(poly)}
    IN Rect(SetMin(xs), SetMin(ys), SetMax(xs) - SetMin(xs), SetMax(ys) - SetMin(ys))

\* A ClipperPaths: its paths, a set of closed polygons
ClipperPaths(paths) == [type |-> "ClipperPaths", paths |-> paths]

\* ClipperPaths.simplify: the polygon itself when there is at most one path
simplify(cp) ==
    IF Cardinality(cp.paths) > 1 THEN cp
    ELSE IF cp.paths = {} THEN EmptyPolygon
    ELSE PolygonShape(CHOOSE q \in cp.paths : TRUE)

\* The unit cells a rectangle covers, each named by its least corner
CellsOfRect(r) == (r.x .. (r.x + r.w - 1)) \X (r.y .. (r.y + r.h - 1))

\* The cells of a Rectangle, of a rectangle-shaped Polygon or of a ClipperPaths
CellsOf(shape) ==
    CASE shape.type = "Rectangle" -> CellsOfRect(shape.rect)
      [] shape.type = "Polygon" ->
            IF shape.points = <<>> THEN {} ELSE CellsOfRect(PolygonBounds(shape.points))
      [] shape.type = "ClipperPaths" ->
            UNION {CellsOfRect(PolygonBounds(q)) : q \in shape.paths}

\* shape.area()
ShapeArea(shape) == Cardinality(CellsOf(shape))

\* intersectConstrainedShapeWithLOS(constrained, los): los.intersectPolygon
intersectConstrainedShapeWithLOS(constrained, los) == CellsOf(los) \cap CellsOf(constrained)

\* sourceIntersectsBounds(source, bbox), lines 589-595
sourceIntersectsBounds(poly, bbox) ==
    \E e \in IterateEdges(poly) : RectLineSegmentIntersects(bbox, e[1], e[2], FALSE)

\* lineSegmentCrosses of util.js: the segments cross, no endpoint of one lying
\* on the line of the other
lineSegmentCrosses(a, b, c, d) ==
    /\ orient2dFast(a, b, c) * orient2dFast(a, b, d) < 0
    /\ orient2dFast(c, d, a) * orient2dFast(c, d, b) < 0

\* PIXI.Polygon.linesCross(lines)
linesCross(poly, lines) ==
    \E e \in IterateEdges(poly), l \in lines : lineSegmentCrosses(e[1], e[2], l[1], l[2])

\* sourceIntersectsPolygonBounds(source, bounds), lines 606-616
sourceIntersectsPolygonBounds(poly, bounds) ==
    IF bounds.type = "Rectangle"
    THEN sourceIntersectsBounds(poly, bounds.rect)
    ELSE LET bbox == PolygonBounds(bounds.points)
             edges == {e \in IterateEdges(poly) :
                          RectLineSegmentIntersects(bbox, e[1], e[2], TRUE)}
         IN linesCross(bounds.points, edges)

\* areaTest(los, constrainedTokenShape) with percentArea = p / PercentOne
areaTestShapes(los, constrained, p) ==
    LET simplified == IF p = 0 /\ los.type = "ClipperPaths" THEN simplify(los) ELSE los
        isPaths == simplified.type = "ClipperPaths"
        crosses == IF isPaths THEN FALSE
                   ELSE sourceIntersectsPolygonBounds(simplified.points, constrained)
        seenArea == Cardinality(intersectConstrainedShapeWithLOS(constrained, los))
    IN areaTest(isPaths, crosses, seenArea, ShapeArea(constrained), 1, p)

----------------------------------------------------------------------------
(* SpecAreaShapes: areaTest(los, constrainedTokenShape) called again and
   again on one line of sight and one footprint while the GM raises
   PERCENT_AREA. *)

\* Lines of sight: a Polygon for each rectangle of whole cells in the scene,
\* and ClipperPaths of no path, one path, or two paths that do not touch, the
\* paths being columns of the scene one cell wide
LosChoices ==
    {PolygonShape(RectPolygon(r)) :
        r \in {q \in [x : 0 .. (SceneW - 1), y : 0 .. (SceneH - 1),
                      w : 1 .. SceneW, h : 1 .. SceneH] :
                  Right(q) <= SceneW /\ Bottom(q) <= SceneH}}
    \cup
    {ClipperPaths({RectPolygon(r) : r \in S}) :
        S \in {T \in SUBSET {Rect(x, 0, 1, SceneH) : x \in 0 .. (SceneW - 1)} :
                  /\ Cardinality(T) <= 2
                  /\ \A r \in T, q \in T : r = q \/ Abs(r.x - q.x) >= 2}}

\* Footprints constrainedTokenShape gives: the bounds as a Rectangle, a
\* Polygon of the left w columns of the bounds, and a Rectangle of no width
FootprintChoices ==
    {RectShape(TargetBounds)}
    \cup {PolygonShape(RectPolygon(Rect(TargetBounds.x, TargetBounds.y, w, TargetBounds.h))) :
            w \in 1 .. TargetBounds.w}
    \cup {RectShape(Rect(TargetBounds.x, TargetBounds.y, 0, TargetBounds.h))}

InitAreaShapes ==
    /\ walls = {}
    /\ sweep = RectPolygon(TargetBounds)
    /\ \E p \in PercentAreas : settings = Settings(p)
    /\ \E los \in LosChoices : source = Source(0, 0, 0, 0, los)
    /\ \E shape \in FootprintChoices :
          token = [Token(TargetBounds, 0, 0) EXCEPT !.shape = shape]
    /\ call = [op |-> "areaTest", state |-> "pending", prev |-> <<>>]

\* areaTest(source.los, token._constrainedTokenShape)
AreaTestShapesCall ==
    /\ call.op = "areaTest"
    /\ call.state = "pending"
    /\ call' = [call EXCEPT !.state = "returned"] @@
               [ret |-> areaTestShapes(source.los, token.shape, settings.percentArea)]
    /\ UNCHANGED <<settings, walls, token, source, sweep>>

\* The GM raises PERCENT_AREA in the settings; areaTest is then called again,
\* prev keeping what the call before returned
SetPercentArea ==
    /\ call.op = "areaTest"
    /\ call.state = "returned"
    /\ \E p \in PercentAreas :
          /\ p > settings.percentArea
          /\ settings' = Settings(p)
    /\ call' = [op |-> "areaTest", state |-> "pending",
                prev |-> <<[percentArea |-> settings.percentArea,
                           result |-> call.ret.result]>>]
    /\ UNCHANGED <<walls, token, source, sweep>>

NextAreaShapes == AreaTestShapesCall \/ SetPercentArea

SpecAreaShapes == InitAreaShapes /\ [][NextAreaShapes]_vars

AreaShapesReturned ==
    call.op = "areaTest" /\ call.state = "returned" /\ "prev" \in DOMAIN call

\* C2: for one line of sight and one footprint areaTest is non-increasing in
\* p: after it returned false at p1 it returns false at every p2 > p1 in
\* 0, 0.1, ..., 1 (p1 = 0, where the crossing test stands for the ratio,
\* included).
C2_AreaTestNonIncreasing ==
    (/\ AreaShapesReturned
     /\ call.prev # <<>>
     /\ call.prev[1].percentArea < settings.percentArea
     /\ call.prev[1].result = FALSE) => call.ret.result = FALSE

----------------------------------------------------------------------------
(* shadowPolygonForElevation, module.js 551-575.  Seen from the side: the
   source looks along x, walls stand across the scene at one x and a line of
   sight or a shadow is a set of columns of the scene. *)

\* The columns a rectangle-shaped polygon covers
ColumnsOf(poly) ==
    LET b == PolygonBounds(poly) IN b.x .. (b.x + b.w - 1)

\* The polygon of the columns from to to
ColumnsPolygon(from, to) == RectPolygon(Rect(from, 0, to - from + 1, SceneH))

\* The polygons of the maximal runs of a set of columns
RunsOf(cols) ==
    {ColumnsPolygon(from, SetMin({to \in cols : to >= from /\ (to + 1) \notin cols})) :
        from \in {c \in cols : (c - 1) \notin cols}}

\* Shadow.construct(wall, visionSource, targetElevation): the columns behind
\* the wall whose middle, on the plane at elevation z, is hidden from the
\* source by the wall between its bottomZ and topZ; {} stands for null.
\* h / d is the elevation at which the sight line to the column passes the wall.
ShadowConstruct(w, src, z) ==
    {c \in 0 .. (SceneW - 1) :
        /\ src.x < w.A[1]
        /\ w.A[1] <= c
        /\ LET d == (2 * c) + 1 - (2 * src.x)
               h == (src.elevationZ * d) + ((z - src.elevationZ) * 2 * (w.A[1] - src.x))
           IN  w.bottomZ * d <= h /\ h <= w.topZ * d}

\* Shadow.combinePolygonWithShadows(los, shadows): los less the shadows
combinePolygonWithShadows(los, shadows) ==
    ClipperPaths(RunsOf(ColumnsOf(los.points) \ UNION shadows))

\* shadowPolygonForElevation without the collisionTest of line 557: every
\* wall the quadtree finds is handed to Shadow.construct
shadowPolygonForElevationAllWalls(src, ws, targetElevation) ==
    LET los == src.los
        bounds == PolygonBounds(los.points)
        found == QuadtreeGetObjects(ws, bounds)
        shadows == {ShadowConstruct(w, src, targetElevation) : w \in found} \ {{}}
    IN  IF found = {}
        THEN [los |-> los, constructed |-> {}, shadows |-> {}]
        ELSE [los |-> combinePolygonWithShadows(los, shadows),
              constructed |-> found, shadows |-> shadows]

\* shadowPolygonForElevation(visionSource, targetElevation) with canvas.walls
\* = ws: the polygon returned, the walls handed to Shadow.construct and the
\* shadows combined
shadowPolygonForElevation(src, ws, targetElevation) ==
    LET los == src.los
        bounds == PolygonBounds(los.points)
        found == {w \in QuadtreeGetObjects(ws, bounds) :
                     isFinite(w.topZ) \/ isFinite(w.bottomZ)}
        shadows == {ShadowConstruct(w, src, targetElevation) : w \in found} \ {{}}
    IN  IF found = {}
        THEN [los |-> los, constructed |-> {}, shadows |-> {}]
        ELSE [los |-> combinePolygonWithShadows(los, shadows),
              constructed |-> found, shadows |-> shadows]

----------------------------------------------------------------------------
(* testLOSArea, module.js 435-476 *)

\* lines 442 and 447: 0.50, in tenths
PercentHalf == 5

\* lines 442 and 447 with the comparisons on the wrong side of one half
CenterDecidesPastHalf(hasLOS, p) ==
    \/ hasLOS /\ p <= PercentHalf
    \/ ~hasLOS /\ p > PercentHalf

\* lines 442 and 447: the centre point's result is returned as it is
CenterDecides(hasLOS, p) ==
    \/ hasLOS /\ p < PercentHalf
    \/ ~hasLOS /\ p >= PercentHalf

\* line 470 with && for ||
EitherPlaneBoth(top, bottom) == top /\ bottom

\* line 470: areaTest(shadowLOSTop, ...) || areaTest(shadowLOSBottom, ...)
EitherPlane(top, bottom) == top \/ bottom

\* line 451 with = for ||=: the shape is built at every call
BuildsShapeAlways(tok) == TRUE

\* line 451, target._constrainedTokenShape ||= ...: the shape is built when
\* the token holds none
BuildsShape(tok) == tok.shape = Undefined

\* lines 457-465 with the comparisons of the observer's elevation with the
\* target's top and bottom made inclusive
PlanesTestedInclusive(src, tok) ==
    LET inBetween == src.elevationZ < tok.topZ /\ src.elevationZ > tok.bottomZ
    IN  [bottom |-> inBetween \/ src.elevationZ <= tok.bottomZ,
         top |-> inBetween \/ src.elevationZ >= tok.topZ]

\* lines 457-465: the planes for which shadowPolygonForElevation is called,
\* the bottom when looking up at it and the top when looking down at it
PlanesTested(src, tok) ==
    LET inBetween == src.elevationZ < tok.topZ /\ src.elevationZ > tok.bottomZ
    IN  [bottom |-> inBetween \/ src.elevationZ < tok.bottomZ,
         top |-> inBetween \/ src.elevationZ > tok.topZ]

\* testLOSArea(visionSource, target, hasLOS) with percentArea = p / PercentOne,
\* canvas.walls = ws and swept what the sweep gives for the target.  Returns
\* the result, target._constrainedTokenShape afterwards, the functions called
\* in order, and the shadowed lines of sight computed (as one-element
\* sequences, <<>> when not computed).
testLOSArea(src, tok, hasLOS, p, ws, swept) ==
    IF CenterDecides(hasLOS, p)
    THEN [result |-> hasLOS, shape |-> tok.shape, calls |-> <<>>,
          shadowLOSTop |-> <<>>, shadowLOSBottom |-> <<>>]
    ELSE
    LET build == BuildsShape(tok)
        constrained == IF build
                       THEN constrainedTokenShape(tok.bounds, ScaleOne, ws, swept).shape
                       ELSE tok.shape
        lookUp == PlanesTested(src, tok).bottom
        lookDown == PlanesTested(src, tok).top
        shadowLOSBottom == shadowPolygonForElevation(src, ws, tok.bottomZ).los
        shadowLOSTop == shadowPolygonForElevation(src, ws, tok.topZ).los
        before == (IF build THEN <<"constrainedTokenShape">> ELSE <<>>)
                  \o (IF lookUp THEN <<"shadowPolygonForElevation bottom">> ELSE <<>>)
                  \o (IF lookDown THEN <<"shadowPolygonForElevation top">> ELSE <<>>)
        out(result, tests) ==
            [result |-> result, shape |-> constrained, calls |-> before \o tests,
             shadowLOSTop |-> IF lookDown THEN <<shadowLOSTop>> ELSE <<>>,
             shadowLOSBottom |-> IF lookUp THEN <<shadowLOSBottom>> ELSE <<>>]
    IN  IF lookDown /\ lookUp
        THEN LET top == areaTestShapes(shadowLOSTop, constrained, p).result
                 bottom == areaTestShapes(shadowLOSBottom, constrained, p).result
             IN  out(EitherPlane(top, bottom),
                     IF top THEN <<"areaTest top">>
                     ELSE <<"areaTest top", "areaTest bottom">>)
        ELSE IF lookDown
        THEN out(areaTestShapes(shadowLOSTop, constrained, p).result, <<"areaTest top">>)
        ELSE IF lookUp
        THEN out(areaTestShapes(shadowLOSBottom, constrained, p).result, <<"areaTest bottom">>)
        ELSE out(areaTestShapes(src.los, constrained, p).result, <<"areaTest los">>)

----------------------------------------------------------------------------
(* Spec: a scene of one vision source and one target token, on which the
   host tests the target's visibility and updates its vision source. *)

\* The target: bottom at elevation 2, top at elevation 6
TargetToken == Token(TargetBounds, 2, 6)

\* The source's elevation: below the target, at its bottom, between, at its
\* top, above
SourceElevations == {0, 2, 4, 6, 8}

\* The source stands at the left border and sees the columns left of x = w
SceneSources ==
    {Source(0, 2, z, 0, PolygonShape(ColumnsPolygon(0, w - 1))) :
        z \in SourceElevations, w \in 1 .. SceneW}

\* Walls across the scene at x = 2 and x = 4: of full height, up to elevation
\* 5, from elevation 3 up
SceneWalls ==
    {Wall(<<x, 0>>, <<x, SceneH>>, h[1], h[2]) :
        x \in {2, 4}, h \in {<<-Infinity, Infinity>>, <<-Infinity, 5>>, <<3, Infinity>>}}

\* What the sweep from the target's centre may give: the whole bounds (the
\* walls left by the filters need not block sight) or the bounds up to such a
\* wall, on the centre's side
SceneSweeps(bbox, ws) ==
    {RectPolygon(bbox)} \cup
    {IF 2 * w.A[1] < Left(bbox) + Right(bbox)
     THEN RectPolygon(Rect(w.A[1], bbox.y, Right(bbox) - w.A[1], bbox.h))
     ELSE RectPolygon(Rect(bbox.x, bbox.y, w.A[1] - Left(bbox), bbox.h)) :
        w \in FilterWalls(bbox, QuadtreeGetObjects(ws, bbox))}

Init ==
    /\ \E p \in PercentAreas : settings = Settings(p)
    /\ walls \in {ws \in SUBSET SceneWalls : Cardinality(ws) <= MaxWalls}
    /\ token = TargetToken
    /\ source \in SceneSources
    /\ sweep \in SceneSweeps(token.bounds, walls)
    /\ call = [op |-> "none"]

\* _testLOSDetectionMode calls testLOSArea(visionSource, target, hasLOS) with
\* the result hasLOS of the wrapped test of the centre point
TestLOSAreaCall ==
    \E hasLOS \in BOOLEAN :
        LET ret == testLOSArea(source, token, hasLOS, settings.percentArea, walls, sweep)
        IN  /\ token' = [token EXCEPT !.shape = ret.shape]
            /\ call' = [op |-> "testLOSArea", hasLOS |-> hasLOS,
                        shapeBefore |-> token.shape, ret |-> ret]
            /\ UNCHANGED <<settings, walls, source, sweep>>

\* tokenUpdateVisionSource without line 386: the wrapped update alone
TokenUpdateVisionSourceKeepsShape ==
    /\ \E defer \in BOOLEAN, deleted \in BOOLEAN :
          call' = [op |-> "updateVisionSource", defer |-> defer, deleted |-> deleted]
    /\ UNCHANGED <<settings, walls, token, source, sweep>>

\* tokenUpdateVisionSource(wrapped, { defer, deleted }), lines 384-388,
\* wrapping Token.updateVisionSource of the target
TokenUpdateVisionSource ==
    /\ token' = [token EXCEPT !.shape = Undefined]
    /\ \E defer \in BOOLEAN, deleted \in BOOLEAN :
          call' = [op |-> "updateVisionSource", defer |-> defer, deleted |-> deleted]
    /\ UNCHANGED <<settings, walls, source, sweep>>

Next == TestLOSAreaCall \/ TokenUpdateVisionSource

Spec == Init /\ [][Next]_vars

\* The last operation was a call of testLOSArea
LOSAreaReturned == call.op = "testLOSArea"

\* The names in a sequence of calls
Called(calls) == {calls[i] : i \in 1 .. Len(calls)}

AreaTests == {"areaTest top", "areaTest bottom", "areaTest los"}

\* C3: testLOSArea returns true when the centre point has LOS and p < 0.5,
\* and false when it has none and p >= 0.5, in both cases leaving the token's
\* cached constrained shape as it was and calling neither
\* constrainedTokenShape nor shadowPolygonForElevation nor areaTest; in the
\* two other cases the area test is reached.
C3_CenterShortCircuits ==
    LOSAreaReturned =>
        /\ (call.hasLOS /\ settings.percentArea < 5) =>
              /\ call.ret.result = TRUE
              /\ token.shape = call.shapeBefore
              /\ call.ret.calls = <<>>
        /\ (~call.hasLOS /\ settings.percentArea >= 5) =>
              /\ call.ret.result = FALSE
              /\ token.shape = call.shapeBefore
              /\ call.ret.calls = <<>>
        /\ (call.hasLOS <=> settings.percentArea >= 5) =>
              Called(call.ret.calls) \cap AreaTests # {}

\* No LOS to the centre and half the area required: false, no shape built
C3_Witness ==
    /\ LOSAreaReturned
    /\ ~call.hasLOS
    /\ settings.percentArea = 5
    /\ call.ret.result = FALSE
    /\ call.shapeBefore = Undefined
    /\ token.shape = Undefined

\* The source's elevation is strictly between the target's bottom and top
InBetween == source.elevationZ < token.topZ /\ source.elevationZ > token.bottomZ

\* Cells of the cached footprint inside a line of sight
SeenCells(los) == Cardinality(CellsOf(los) \cap CellsOf(token.shape))

\* C4: when testLOSArea reaches the area test with the source's elevation
\* strictly between the target's bottom and top, the shadowed LOS is computed
\* at the top and at the bottom and the result is true iff the area test
\* passes for one of them: top ratio 0.6 and bottom ratio 0.2 at p = 0.5 give
\* true, both ratios below p give false.
C4_InBetweenEitherPlane ==
    (LOSAreaReturned /\ call.ret.calls # <<>> /\ InBetween) =>
        /\ {"shadowPolygonForElevation top", "shadowPolygonForElevation bottom"}
              \subseteq Called(call.ret.calls)
        /\ call.ret.shadowLOSTop # <<>>
        /\ call.ret.shadowLOSBottom # <<>>
        /\ LET top == call.ret.shadowLOSTop[1]
               bottom == call.ret.shadowLOSBottom[1]
               p == settings.percentArea
               area == ShapeArea(token.shape)
           IN  /\ call.ret.result <=>
                     \/ areaTestShapes(top, token.shape, p).result
                     \/ areaTestShapes(bottom, token.shape, p).result
               /\ (/\ p = 5
                   /\ SeenCells(top) * 10 = 6 * area
                   /\ SeenCells(bottom) * 10 = 2 * area) => call.ret.result = TRUE
               /\ (/\ p > 0
                   /\ SeenCells(top) * 10 < p * area
                   /\ SeenCells(bottom) * 10 < p * area) => call.ret.result = FALSE

\* Six tenths of the target seen at its top, two tenths at its bottom, half
\* required: visible
C4_Witness ==
    /\ LOSAreaReturned
    /\ call.ret.calls # <<>>
    /\ InBetween
    /\ settings.percentArea = 5
    /\ ShapeArea(token.shape) = 10
    /\ SeenCells(call.ret.shadowLOSTop[1]) = 6
    /\ SeenCells(call.ret.shadowLOSBottom[1]) = 2
    /\ call.ret.result = TRUE

\* The area tests of the last call, in order
AreaTestsMade == SelectSeq(call.ret.calls, LAMBDA c : c \in AreaTests)

\* The shadowed lines of sight computed by the last call
ShadowsComputed ==
    {c \in Called(call.ret.calls) :
        c \in {"shadowPolygonForElevation top", "shadowPolygonForElevation bottom"}}

\* C25: when testLOSArea reaches the area test, an observer strictly above
\* the target's top tests the top-plane shadowed LOS only, an observer
\* strictly below the target's bottom tests the bottom-plane shadowed LOS
\* only, and an observer exactly at the target's top or bottom has no shadow
\* polygon computed and is tested against the unshadowed LOS; in each of
\* these cases exactly one area test runs and its result is returned.
C25_StrictPlaneSelection ==
    (LOSAreaReturned /\ call.ret.calls # <<>>) =>
        LET p == settings.percentArea
        IN  /\ source.elevationZ > token.topZ =>
                  /\ ShadowsComputed = {"shadowPolygonForElevation top"}
                  /\ call.ret.shadowLOSTop # <<>>
                  /\ call.ret.shadowLOSBottom = <<>>
                  /\ AreaTestsMade = <<"areaTest top">>
                  /\ call.ret.result =
                        areaTestShapes(call.ret.shadowLOSTop[1], token.shape, p).result
            /\ source.elevationZ < token.bottomZ =>
                  /\ ShadowsComputed = {"shadowPolygonForElevation bottom"}
                  /\ call.ret.shadowLOSBottom # <<>>
                  /\ call.ret.shadowLOSTop = <<>>
                  /\ AreaTestsMade = <<"areaTest bottom">>
                  /\ call.ret.result =
                        areaTestShapes(call.ret.shadowLOSBottom[1], token.shape, p).result
            /\ source.elevationZ \in {token.topZ, token.bottomZ} =>
                  /\ ShadowsComputed = {}
                  /\ call.ret.shadowLOSTop = <<>>
                  /\ call.ret.shadowLOSBottom = <<>>
                  /\ AreaTestsMade = <<"areaTest los">>
                  /\ call.ret.result = areaTestShapes(source.los, token.shape, p).result

\* The observer at the elevation of the target's top, behind a wall of
\* limited height that the quadtree finds: the target is tested against the
\* unshadowed line of sight and seen
C25_Witness ==
    /\ LOSAreaReturned
    /\ call.ret.calls # <<>>
    /\ source.elevationZ = token.topZ
    /\ shadowPolygonForElevation(source, walls, token.bottomZ).shadows # {}
    /\ AreaTestsMade = <<"areaTest los">>
    /\ call.ret.result = TRUE
    /\ ~areaTestShapes(shadowPolygonForElevation(source, walls, token.bottomZ).los,
                       token.shape, settings.percentArea).result

----------------------------------------------------------------------------
(* SpecShadow: shadowPolygonForElevation(visionSource, targetElevation)
   called on a scene *)

InitShadow ==
    /\ settings = Settings(0)
    /\ token = TargetToken
    /\ sweep = RectPolygon(token.bounds)
    /\ walls \in {ws \in SUBSET SceneWalls : Cardinality(ws) <= MaxWalls}
    /\ source \in SceneSources
    /\ \E z \in SourceElevations :
          call = [op |-> "shadowPolygonForElevation", state |-> "pending",
                  targetElevation |-> z]

ShadowPolygonForElevationCall ==
    /\ call.op = "shadowPolygonForElevation"
    /\ call.state = "pending"
    /\ call' = [call EXCEPT !.state = "returned"] @@
               [ret |-> shadowPolygonForElevation(source, walls, call.targetElevation)]
    /\ UNCHANGED <<settings, walls, token, source, sweep>>

NextShadow == ShadowPolygonForElevationCall

SpecShadow == InitShadow /\ [][NextShadow]_vars

ShadowReturned == call.op = "shadowPolygonForElevation" /\ call.state = "returned"

\* The walls of the scene whose bounds meet the bounds of the source's LOS
\* and whose top or bottom is finite
FiniteWallsInLos ==
    {w \in walls : /\ Overlaps(PolygonBounds(source.los.points), WallBounds(w))
                   /\ (w.topZ # Infinity \/ w.bottomZ # -Infinity)}

\* C11: shadowPolygonForElevation returns the source's LOS polygon itself when
\* no wall within the LOS bounds has a finite top or bottom; a wall of
\* infinite top and bottom is never handed to Shadow.construct; otherwise the
\* result is the LOS less exactly the non-null shadows of the finite walls
\* found.
C11_ShadowsOfFiniteWallsOnly ==
    ShadowReturned =>
        /\ FiniteWallsInLos = {} => call.ret.los = source.los
        /\ call.ret.constructed = FiniteWallsInLos
        /\ \A w \in call.ret.constructed : ~(w.topZ = Infinity /\ w.bottomZ = -Infinity)
        /\ FiniteWallsInLos # {} =>
              /\ call.ret.shadows =
                    {ShadowConstruct(w, source, call.targetElevation) :
                        w \in FiniteWallsInLos} \ {{}}
              /\ CellsOf(call.ret.los) =
                    {c \in CellsOf(source.los) : c[1] \notin UNION call.ret.shadows}

\* A wall of full height and a finite wall both within the LOS bounds: only
\* the finite wall is handed to Shadow.construct, and it casts a shadow
C11_Witness ==
    /\ ShadowReturned
    /\ \E w \in walls : /\ w.topZ = Infinity /\ w.bottomZ = -Infinity
                        /\ Overlaps(PolygonBounds(source.los.points), WallBounds(w))
    /\ Cardinality(call.ret.constructed) = 1
    /\ call.ret.shadows # {}
    /\ CellsOf(call.ret.los) # CellsOf(source.los)

----------------------------------------------------------------------------
(* SpecCache: the life of target._constrainedTokenShape while the host tests
   the target from several vision sources, updates the target's vision
   source and the GM changes the walls. *)

\* Vision sources below the target and between its bottom and top, seeing
\* three columns or the whole scene
CacheSources ==
    {Source(0, 2, z, 0, PolygonShape(ColumnsPolygon(0, w - 1))) :
        z \in {0, 4}, w \in {3, SceneW}}

InitCache ==
    /\ \E p \in {2, PercentHalf} : settings = Settings(p)
    /\ walls \in {ws \in SUBSET SceneWalls : Cardinality(ws) <= MaxWalls}
    /\ token = TargetToken
    /\ source \in CacheSources
    /\ sweep \in SceneSweeps(token.bounds, walls)
    /\ call = [op |-> "none"]

\* The GM creates, deletes or moves walls; the sweep from the target's centre
\* gives what it gives with the new walls
WallsChange ==
    /\ \E ws \in {v \in SUBSET SceneWalls : Cardinality(v) <= MaxWalls} :
          /\ ws # walls
          /\ walls' = ws
          /\ sweep' \in SceneSweeps(token.bounds, ws)
    /\ call' = [op |-> "wallsChange"]
    /\ UNCHANGED <<settings, token, source>>

\* The host goes on to test the target from another vision source
VisionSourceChange ==
    /\ \E src \in CacheSources :
          /\ src # source
          /\ source' = src
    /\ call' = [op |-> "visionSourceChange"]
    /\ UNCHANGED <<settings, walls, token, sweep>>

NextCache ==
    \/ TestLOSAreaCall
    \/ TokenUpdateVisionSource
    \/ WallsChange
    \/ VisionSourceChange

SpecCache == InitCache /\ [][NextCache]_vars

\* The walls of the scene that pass through the inside of the target's bounds
WallsThroughTarget ==
    {w \in walls : Left(token.bounds) < w.A[1] /\ w.A[1] < Right(token.bounds)}

\* C12: every call of tokenUpdateVisionSource, whatever defer and deleted,
\* leaves the target without cached shape; the cached shape changes only by
\* such a clearing or by a testLOSArea call that finds none and reaches the
\* area test, and that call builds it from the walls of the scene at that
\* moment: so no area test after a vision update uses a shape built before it.
C12_UpdateClearsShape ==
    /\ [](call.op = "updateVisionSource" => token.shape = Undefined)
    /\ []((LOSAreaReturned /\ call.shapeBefore = Undefined /\ call.ret.calls # <<>>) =>
            /\ "constrainedTokenShape" \in Called(call.ret.calls)
            /\ call.ret.shape = token.shape
            /\ token.shape \in {RectShape(token.bounds), PolygonShape(sweep)}
            /\ WallsThroughTarget = {} => token.shape = RectShape(token.bounds))
    /\ [][token'.shape # token.shape =>
            \/ call'.op = "updateVisionSource" /\ token'.shape = Undefined
            \/ /\ call'.op = "testLOSArea"
               /\ token.shape = Undefined
               /\ call'.ret.calls # <<>>
               /\ walls' = walls]_vars

\* A testLOSArea call found no cached shape and built it as a polygon cut by a
\* wall of the scene
C12_Witness ==
    /\ LOSAreaReturned
    /\ call.shapeBefore = Undefined
    /\ "constrainedTokenShape" \in Called(call.ret.calls)
    /\ token.shape.type = "Polygon"
    /\ token.shape.points # RectPolygon(token.bounds)
    /\ WallsThroughTarget # {}

\* The area tests of the last testLOSArea call, made on the shape given
AreaTestsOn(shape) ==
    LET ret == call.ret
        p == settings.percentArea
    IN  IF ret.shadowLOSTop # <<>> /\ ret.shadowLOSBottom # <<>>
        THEN \/ areaTestShapes(ret.shadowLOSTop[1], shape, p).result
             \/ areaTestShapes(ret.shadowLOSBottom[1], shape, p).result
        ELSE IF ret.shadowLOSTop # <<>>
        THEN areaTestShapes(ret.shadowLOSTop[1], shape, p).result
        ELSE IF ret.shadowLOSBottom # <<>>
        THEN areaTestShapes(ret.shadowLOSBottom[1], shape, p).result
        ELSE areaTestShapes(source.los, shape, p).result

\* What constrainedTokenShape would give for the target with the walls of the
\* scene as they are
FreshShape == constrainedTokenShape(token.bounds, ScaleOne, walls, sweep).shape

\* C13: once the target holds a cached shape, every testLOSArea call, from
\* any vision source and after any change of walls, leaves the cache as it
\* was, does not call constrainedTokenShape and makes its area tests on that
\* shape; only tokenUpdateVisionSource takes the cached shape away.
C13_ShapeBuiltOnce ==
    /\ []((LOSAreaReturned /\ call.shapeBefore # Undefined) =>
            /\ token.shape = call.shapeBefore
            /\ "constrainedTokenShape" \notin Called(call.ret.calls)
            /\ call.ret.calls # <<>> => call.ret.result = AreaTestsOn(call.shapeBefore))
    /\ [][(token.shape # Undefined /\ call'.op # "updateVisionSource") =>
            token'.shape = token.shape]_vars

\* An area test made on a cached shape that the walls now in the scene would
\* not give, with a result the fresh shape would not give
C13_Witness ==
    /\ LOSAreaReturned
    /\ call.shapeBefore # Undefined
    /\ call.ret.calls # <<>>
    /\ token.shape = call.shapeBefore
    /\ token.shape # FreshShape
    /\ call.ret.result # AreaTestsOn(FreshShape)

-----------------------------------------------------------------------------
(* SpecRepeat: constrainedTokenShape called again and again on one token     *)

MaxCalls == 2

\* lines 628-633, with the rectangle bbox.pad() changes being the token's
\* own: the padded rectangle is what token.bounds gives from then on
BoundsLeftByShared(tok, bbox) == bbox

\* lines 628-633: token.bounds is the host's accessor, which makes a rectangle
\* from the token's position and size at each read; bbox.pad() changes that
\* rectangle and the token keeps its position and size
BoundsLeftBy(tok, bbox) == tok.bounds

InitRepeat ==
    /\ settings = Settings(0)
    /\ source = NoSource
    /\ \E b \in TokenBoundsSet : token = Token(b, 0, 0)
    /\ walls \in WallSetsUpTo(1)
    /\ \E s \in ScaleSet :
          /\ sweep \in SweepChoices(ScaledBounds(token.bounds, s), walls,
                                    FewPolygons(ScaledBounds(token.bounds, s)))
          /\ call = [op |-> "constrainedTokenShape", boundsScale |-> s, rets |-> <<>>]

\* The host calls constrainedTokenShape(token, { boundsScale }) once more,
\* with the walls as they were
ConstrainedTokenShapeRepeat ==
    /\ Len(call.rets) < MaxCalls
    /\ LET ret == constrainedTokenShape(token.bounds, call.boundsScale, walls, sweep)
       IN  /\ call' = [call EXCEPT !.rets = Append(@, ret)]
           /\ token' = [token EXCEPT !.bounds = BoundsLeftBy(token, ret.bbox)]
    /\ UNCHANGED <<settings, walls, source, sweep>>

NextRepeat == ConstrainedTokenShapeRepeat

SpecRepeat == InitRepeat /\ [][NextRepeat]_vars

-----------------------------------------------------------------------------
(* The wrappers of the host's visibility test: testVisibilityCanvasVisibility,
   testVisibilityDetectionMode with elevatePoints, _testRangeDetectionMode and
   _testLOSDetectionMode. *)

\* The settings read with getSetting and the debug flag of the module's api
DetectSettings(p, range, los, debug) ==
    [percentArea |-> p, rangeAlgorithm |-> range, losAlgorithm |-> los, debug |-> debug]

\* A placeable object that is not a Token
Placeable(bounds) == [bounds |-> bounds]

\* object=null, the default of testVisibilityCanvasVisibility
Null == [type |-> "null"]

\* object instanceof Token
instanceofToken(object) == "topZ" \in DOMAIN object

\* line 264: the default of options.tolerance
DefaultTolerance == 2

\* testVisibilityCanvasVisibility that sets the tolerance to zero for a Token
\* whatever the range algorithm
testVisibilityCanvasVisibilityAnyRange(point, tolerance, object, algorithm) ==
    LET given == IF tolerance = <<>> THEN DefaultTolerance ELSE tolerance[1]
        obj == IF object = <<>> THEN Null ELSE object[1]
    IN  [point |-> point,
         tolerance |-> IF instanceofToken(obj) THEN 0 ELSE given,
         object |-> obj]

\* testVisibilityCanvasVisibility(wrapped, point, {tolerance=2, object=null}):
\* the arguments handed to the wrapped test.  tolerance and object are
\* one-element sequences, <<>> when the caller left them out.
testVisibilityCanvasVisibility(point, tolerance, object, algorithm) ==
    LET given == IF tolerance = <<>> THEN DefaultTolerance ELSE tolerance[1]
        obj == IF object = <<>> THEN Null ELSE object[1]
    IN  [point |-> point,
         tolerance |-> IF instanceofToken(obj) /\ algorithm = "range-center"
                       THEN 0 ELSE given,
         object |-> obj]

\* A test object { point, los }: point.z, test.centerPoint and test.hasLOSArea
\* are one-element sequences or, while undefined, <<>>; los names the Map of
\* cached contains-tests; centerPoint is the place in the test list of the
\* test it refers to.
TestObject(x, y, z, los) ==
    [point |-> [x |-> x, y |-> y, z |-> z], los |-> los,
     centerPoint |-> <<>>, hasLOSArea |-> <<>>]

\* lines 342-344
buildTestObject(x, y, z, los) == TestObject(x, y, <<z>>, los)

\* lines 180-182: CanvasVisibility.prototype.testVisibility prepares one point
\* or nine: the centre and 8 points in a square, tolerance away from it
HostOffsets(t) ==
    IF t > 0
    THEN << <<0, 0>>, <<-t, -t>>, <<-t, t>>, <<t, t>>, <<t, -t>>,
            <<-t, 0>>, <<t, 0>>, <<0, -t>>, <<0, t>> >>
    ELSE << <<0, 0>> >>

HostTests(point, t) ==
    [i \in DOMAIN HostOffsets(t) |->
        TestObject(point[1] + HostOffsets(t)[i][1], point[2] + HostOffsets(t)[i][2], <<>>, i)]

\* lines 305-306, 409: bottomZ + (height * 0.5); heights are even here
avgElevation(object) == object.bottomZ + ((object.topZ - object.bottomZ) \div 2)

RECURSIVE TopAndBottom(_, _, _)
\* lines 316-329: for tests[i] on, a test at topZ and one at bottomZ
TopAndBottom(tests, i, object) ==
    IF i > Len(tests) THEN <<>>
    ELSE << buildTestObject(tests[i].point.x, tests[i].point.y, object.topZ, tests[i].los),
            buildTestObject(tests[i].point.x, tests[i].point.y, object.bottomZ, tests[i].los) >>
         \o TopAndBottom(tests, i + 1, object)

\* lines 301-332
elevatePoints(tests, object, algorithm) ==
    IF ~instanceofToken(object) THEN tests
    ELSE
    LET objectHeight == object.topZ - object.bottomZ
        elevated == [i \in DOMAIN tests |->
                        [tests[i] EXCEPT !.point.z =
                            IF @ = <<>> THEN <<avgElevation(object)>> ELSE @]]
    IN  IF objectHeight = 0 \/ algorithm # "range-foundry-3d"
        THEN elevated
        ELSE <<elevated[1]>> \o TopAndBottom(elevated, 2, object)

\* drawing.js: a call of a drawing function, which draws and changes nothing
\* of what it is given
Draw(fn, color) == [fn |-> fn, color |-> color]

Colour(ok) == IF ok THEN "green" ELSE "red"

\* lines 279-293: the tests handed to the wrapped testVisibility and what was
\* drawn
testVisibilityDetectionMode(tests, object, sets) ==
    LET elevated == elevatePoints(tests, object, sets.rangeAlgorithm)
    IN  [tests |-> IF sets.losAlgorithm = "los-area"
                   THEN [i \in DOMAIN elevated |->
                            IF i > 1 THEN [elevated[i] EXCEPT !.centerPoint = <<1>>]
                            ELSE elevated[i]]
                   ELSE elevated,
         drawn |-> IF sets.debug THEN <<Draw("clearDrawings", "")>> ELSE <<>>]

\* _testRangeDetectionMode that, with debug set, draws the point and returns
\* what the wrapped test gave, as at lines 360-363, whatever the target
testRangeDebugSkips3d(object, inRange, test, src, debug) ==
    LET r == IF debug \/ (instanceofToken(object) /\ inRange /\ test.point.z = <<>>)
             THEN [result |-> debug /\ inRange]
             ELSE testRangeDetectionMode(instanceofToken(object), inRange,
                      <<test.point.x, test.point.y,
                        IF test.point.z = <<>> THEN 0 ELSE test.point.z[1]>>, src)
    IN  [ret |-> <<r.result>>,
         drawn |-> IF debug THEN <<Draw("drawPoint", Colour(r.result))>> ELSE <<>>]

\* lines 356-373: what _testRangeDetectionMode returns for the test and what
\* it draws; a point without z gives NaN for dz and so false at line 369
testRangeDebug(object, inRange, test, src, debug) ==
    LET r == IF instanceofToken(object) /\ inRange /\ test.point.z = <<>>
             THEN [result |-> FALSE]
             ELSE testRangeDetectionMode(instanceofToken(object), inRange,
                      <<test.point.x, test.point.y,
                        IF test.point.z = <<>> THEN 0 ELSE test.point.z[1]>>, src)
    IN  [ret |-> <<r.result>>,
         drawn |-> IF debug THEN <<Draw("drawPoint", Colour(r.result))>> ELSE <<>>]

\* lines 421-433: hasLOS is what the wrapped _testLOS gave; collision is what
\* testCollision3d gives, <<>> when the wall-height module is not active
testLOSPoint(hasLOS, collision) ==
    IF ~hasLOS THEN FALSE
    ELSE IF collision = <<>> THEN TRUE
    ELSE ~collision[1]

\* lines 493-494 and 509-529: what areaTest draws when debug is set, r being
\* what it returns
areaTestDrawnFor(r, los, constrained) ==
    IF r.path = "crossing"
    THEN <<Draw("drawShape", "blue"), Draw("drawShape", Colour(r.result))>>
    ELSE IF \/ IsZeroArea(Cardinality(intersectConstrainedShapeWithLOS(constrained, los)), 1)
            \/ IsZeroArea(ShapeArea(constrained), 1)
    THEN <<>>
    ELSE [i \in 1 .. (IF los.type = "ClipperPaths" /\ Cardinality(los.paths) > 1
                      THEN Cardinality(los.paths) ELSE 1) |-> Draw("drawShape", "blue")]
         \o <<Draw("drawShape", Colour(r.result))>>

areaTestDrawn(los, constrained, p) ==
    areaTestDrawnFor(areaTestShapes(los, constrained, p), los, constrained)

\* The lines of sight testLOSArea handed to areaTest, in order, r being what
\* testLOSArea gave
AreaTestLos(r, src) ==
    [i \in 1 .. Len(r.calls) |->
        IF r.calls[i] = "areaTest top" THEN r.shadowLOSTop
        ELSE IF r.calls[i] = "areaTest bottom" THEN r.shadowLOSBottom
        ELSE IF r.calls[i] = "areaTest los" THEN <<src.los>>
        ELSE <<>>]

RECURSIVE DrawnForEach(_, _, _, _)
\* What areaTest draws for the i-th line of sight of the list and those after
DrawnForEach(tested, i, constrained, p) ==
    IF i > Len(tested) THEN <<>>
    ELSE (IF tested[i] = <<>> THEN <<>>
          ELSE areaTestDrawn(tested[i][1], constrained, p))
         \o DrawnForEach(tested, i + 1, constrained, p)

\* lines 464-475: what the area tests of testLOSArea draw
testLOSAreaDrawn(r, src, p) == DrawnForEach(AreaTestLos(r, src), 1, r.shape, p)

\* target.center, for bounds of even width and height
TokenCenter(object) ==
    [x |-> object.bounds.x + (object.bounds.w \div 2),
     y |-> object.bounds.y + (object.bounds.h \div 2)]

\* line 412: test.point.almostEqual(center); a point without z is no match
PointAlmostEqual(point, x, y, z) ==
    /\ point.z # <<>>
    /\ almostEqual(point.x, x)
    /\ almostEqual(point.y, y)
    /\ almostEqual(point.z[1], z)

\* What _testLOSDetectionMode gives: ret is the value returned, <<>> for
\* undefined; threw: a TypeError was thrown; tests and shape: the test list
\* and target._constrainedTokenShape afterwards; drawn: what was drawn
LOSOutcome(ret, threw, tests, shape, drawn, debug) ==
    [ret |-> ret, threw |-> threw, tests |-> tests, shape |-> shape,
     drawn |-> IF debug THEN drawn ELSE <<>>]

\* lines 414-418: the area test of the centre point, r being what testLOSArea
\* gave, stored in tests[i].hasLOSArea
testLOSAreaStored(r, tests, i, src, sets) ==
    LOSOutcome(<<r.result>>, FALSE, [tests EXCEPT ![i].hasLOSArea = <<r.result>>],
               r.shape, testLOSAreaDrawn(r, src, sets.percentArea), sets.debug)

\* lines 393-419: _testLOSDetectionMode for tests[i].  wrapped is what the
\* wrapped _testLOS gives.  Reading test.centerPoint.hasLOSArea of an
\* undefined centerPoint throws a TypeError.
testLOSDetectionMode(object, tests, i, wrapped, collision, src, sets, ws, swept) ==
    IF ~instanceofToken(object)
    THEN LOSOutcome(<<wrapped>>, FALSE, tests, Undefined, <<>>, sets.debug)
    ELSE IF sets.losAlgorithm = "los-points"
    THEN LOSOutcome(<<testLOSPoint(wrapped, collision)>>, FALSE, tests, object.shape,
                    <<Draw("drawPoint", Colour(testLOSPoint(wrapped, collision)))>>,
                    sets.debug)
    ELSE IF sets.losAlgorithm = "los-area"
    THEN IF ~PointAlmostEqual(tests[i].point, TokenCenter(object).x,
                              TokenCenter(object).y, avgElevation(object))
         THEN IF tests[i].centerPoint = <<>>
              THEN LOSOutcome(<<>>, TRUE, tests, object.shape, <<>>, sets.debug)
              ELSE LOSOutcome(tests[tests[i].centerPoint[1]].hasLOSArea, FALSE, tests,
                              object.shape, <<>>, sets.debug)
         ELSE testLOSAreaStored(testLOSArea(src, object, wrapped, sets.percentArea, ws, swept),
                                tests, i, src, sets)
    ELSE LOSOutcome(<<>>, FALSE, tests, object.shape, <<>>, sets.debug)

-----------------------------------------------------------------------------
(* SpecDetect: the host tests the visibility of one object from one vision
   source with one detection mode: CanvasVisibility.testVisibility, then
   DetectionMode.testVisibility, which calls _testRange and _testLOS for one
   test after the other until one succeeds. *)

\* A token of height 4 and one of height 0, of even width and height
DetectObjects ==
    {Token(Rect(1, 1, 4, 2), 2, 6), Token(Rect(1, 1, 4, 2), 2, 2), Placeable(Rect(1, 1, 4, 2))}

\* The source stands at the left border and sees the three columns next to it
DetectSources ==
    {Source(0, 2, zr[1], zr[2], PolygonShape(ColumnsPolygon(0, 2))) :
        zr \in {<<4, 3>>, <<0, 5>>}}

\* lines 189-197: a detection mode's _testPoint calls _testRange and _testLOS
\* for the point, the second only when the first succeeded; which comes first
\* is the mode's choice
DetectionModes == {"range-los", "los-range"}

FirstHandler(mode) == IF mode = "range-los" THEN "_testRange" ELSE "_testLOS"

\* tests.some(test => this._testPoint(...)): what the host does after handler
\* returned ok (a true value) or not for test i
HostNext(c, handler, ok) ==
    IF ok /\ handler = FirstHandler(c.mode)
    THEN [i |-> c.i, next |-> IF handler = "_testRange" THEN "_testLOS" ELSE "_testRange"]
    ELSE IF ok THEN [i |-> c.i, next |-> "visible"]
    ELSE IF c.i < Len(c.tests) THEN [i |-> c.i + 1, next |-> FirstHandler(c.mode)]
    ELSE [i |-> c.i, next |-> "not visible"]

InitDetect ==
    \* settings.js 29-34 and 38-42: the choices of RANGE.ALGORITHM and LOS.ALGORITHM
    /\ \E p \in {0, PercentHalf},
          range \in {"range-center", "range-foundry", "range-foundry-3d"},
          los \in {"los-points", "los-area"}, debug \in BOOLEAN :
          settings = DetectSettings(p, range, los, debug)
    /\ walls = {}
    /\ token \in DetectObjects
    /\ sweep = RectPolygon(token.bounds)
    /\ source \in DetectSources
    /\ \E point \in {<<3, 2>>, <<4, 2>>}, tolerance \in {<<>>, <<0>>, <<1>>},
          mode \in DetectionModes,
          object \in {<<token>>} \cup (IF instanceofToken(token) THEN {} ELSE {<<>>}) :
          call = [op |-> "request", point |-> point, tolerance |-> tolerance,
                  object |-> object, mode |-> mode]

\* The host calls canvas.effects.visibility.testVisibility(point, options) and
\* the wrapped test prepares its tests from what it is handed
TestVisibilityCanvasVisibilityCall ==
    /\ call.op = "request"
    /\ \E passed \in {testVisibilityCanvasVisibility(call.point, call.tolerance, call.object,
                                                        settings.rangeAlgorithm)} :
           call' = [op |-> "testVisibilityCanvasVisibility", mode |-> call.mode,
                    request |-> call, passed |-> passed,
                    tests |-> HostTests(passed.point, passed.tolerance),
                    given |-> <<>>, i |-> 0, next |-> "testVisibility",
                    input |-> <<>>, ret |-> <<>>, threw |-> FALSE, drawn |-> <<>>]
    /\ UNCHANGED <<settings, walls, token, source, sweep>>

\* The host calls the detection mode's testVisibility(visionSource, mode,
\* { object, tests })
TestVisibilityDetectionModeCall ==
    /\ call.op = "testVisibilityCanvasVisibility"
    /\ \E r \in {testVisibilityDetectionMode(call.tests, call.passed.object, settings)} :
           call' = [call EXCEPT !.op = "testVisibilityDetectionMode",
                                !.given = call.tests, !.tests = r.tests,
                                !.drawn = r.drawn, !.i = 1,
                                !.next = FirstHandler(call.mode)]
    /\ UNCHANGED <<settings, walls, token, source, sweep>>

\* The call record after _testRange returned r for test i, the wrapped test
\* having given inRange, and the host moved on
TestRangeOutcomeOf(r, inRange) ==
    [call EXCEPT !.op = "_testRange", !.input = <<inRange>>, !.ret = r.ret,
                 !.threw = FALSE, !.drawn = r.drawn,
                 !.i = HostNext(call, "_testRange", r.ret = <<TRUE>>).i,
                 !.next = HostNext(call, "_testRange", r.ret = <<TRUE>>).next]

TestRangeOutcome(inRange, debug) ==
    TestRangeOutcomeOf(testRangeDebug(call.passed.object, inRange, call.tests[call.i],
                                      source, debug),
                       inRange)

\* The host's _testPoint calls _testRange(visionSource, mode, target, test)
TestRangeStep ==
    /\ call.op # "request"
    /\ call.next = "_testRange"
    /\ \E inRange \in BOOLEAN : call' = TestRangeOutcome(inRange, settings.debug)
    /\ UNCHANGED <<settings, walls, token, source, sweep>>

\* The call record and the target's shape after _testLOS gave r for test i
\* and the host moved on, or stopped where the handler threw
TestLOSOutcomeOf(r, input) ==
    [call |-> [call EXCEPT !.op = "_testLOS", !.input = input,
                           !.tests = r.tests, !.ret = r.ret, !.threw = r.threw,
                           !.drawn = r.drawn,
                           !.i = IF r.threw THEN call.i
                                 ELSE HostNext(call, "_testLOS", r.ret = <<TRUE>>).i,
                           !.next = IF r.threw THEN "threw"
                                    ELSE HostNext(call, "_testLOS", r.ret = <<TRUE>>).next],
     shape |-> r.shape]

\* What _testLOS leaves for test i when the wrapped test gives wrapped and
\* testCollision3d gives collision: the call record and the target's shape
TestLOSOutcome(wrapped, collision, debug) ==
    TestLOSOutcomeOf(testLOSDetectionMode(call.passed.object, call.tests, call.i, wrapped,
                                          collision, source,
                                          [settings EXCEPT !.debug = debug], walls, sweep),
                     <<wrapped>> \o collision)

\* The host's _testPoint calls _testLOS(visionSource, mode, target, test)
TestLOSStep ==
    /\ call.op # "request"
    /\ call.next = "_testLOS"
    /\ \E wrapped \in BOOLEAN, collision \in {<<>>, <<TRUE>>, <<FALSE>>} :
          \E o \in {TestLOSOutcome(wrapped, collision, settings.debug)} :
              /\ call' = o.call
              /\ token' = IF instanceofToken(call.passed.object)
                          THEN [token EXCEPT !.shape = o.shape]
                          ELSE token
    /\ UNCHANGED <<settings, walls, source, sweep>>

NextDetect ==
    \/ TestVisibilityCanvasVisibilityCall
    \/ TestVisibilityDetectionModeCall
    \/ TestRangeStep
    \/ TestLOSStep

SpecDetect == InitDetect /\ [][NextDetect]_vars

\* The call record without what was drawn
NoDrawings(c) == [c EXCEPT !.drawn = <<>>]

\* C15: what testVisibilityDetectionMode, _testRangeDetectionMode and
\* _testLOSDetectionMode (with testLOSArea and areaTest) return and leave
\* behind (the test list with each test's hasLOSArea, the target's cached
\* shape) is what they would have returned and left with the debug flag the
\* other way round; only what is drawn differs.
C15_DebugImmaterial ==
    [][/\ call.op = "testVisibilityCanvasVisibility" =>
            call'.tests = testVisibilityDetectionMode(call.tests, call.passed.object,
                              [settings EXCEPT !.debug = ~settings.debug]).tests
       /\ (call.op # "request" /\ call.next = "_testRange") =>
            NoDrawings(call') = NoDrawings(TestRangeOutcome(call'.input[1], ~settings.debug))
       /\ (call.op # "request" /\ call.next = "_testLOS") =>
            LET o == TestLOSOutcome(call'.input[1], Tail(call'.input), ~settings.debug)
            IN  /\ NoDrawings(call') = NoDrawings(o.call)
                /\ instanceofToken(call.passed.object) => token'.shape = o.shape]_vars

\* With debug set, _testLOS ran the area test on the centre point, drew its
\* shapes, stored hasLOSArea and the target's shape
C15_Witness ==
    /\ call.op = "_testLOS"
    /\ settings.debug
    /\ settings.losAlgorithm = "los-area"
    /\ Len(call.drawn) >= 2
    /\ token.shape # Undefined
    /\ \E i \in DOMAIN call.tests : call.tests[i].hasLOSArea # <<>>

\* C16: _testLOSDetectionMode on a Token returns true or false: it does not
\* return undefined and does not throw, whatever the test point and the LOS
\* algorithm.
C16_LOSReturnsBoolean ==
    (call.op = "_testLOS" /\ instanceofToken(call.passed.object)) =>
        ~call.threw /\ call.ret \in {<<TRUE>>, <<FALSE>>}

\* The x, y and z of the tests of a list
PointsOf(tests) == {tests[i].point : i \in DOMAIN tests}

\* C19: for a Token of non-zero height under FOUNDRY_3D, elevatePoints keeps
\* the centre test first and gives three tests for each test of the host, at
\* mid, top and bottom elevation (27 for 9); otherwise the list has the same
\* points as given.
C19_ThreeElevationsPerPoint ==
    call.op = "testVisibilityDetectionMode" =>
        LET object == call.passed.object
            given == call.given
            tests == call.tests
        IN  IF /\ instanceofToken(object)
               /\ object.topZ # object.bottomZ
               /\ settings.rangeAlgorithm = "range-foundry-3d"
            THEN /\ tests[1].point.x = given[1].point.x
                 /\ tests[1].point.y = given[1].point.y
                 /\ Len(tests) = 3 * Len(given)
                 /\ \A i \in DOMAIN given :
                       \A z \in {avgElevation(object), object.topZ, object.bottomZ} :
                          [x |-> given[i].point.x, y |-> given[i].point.y, z |-> <<z>>]
                              \in PointsOf(tests)
            ELSE /\ Len(tests) = Len(given)
                 /\ \A i \in DOMAIN given :
                       /\ tests[i].point.x = given[i].point.x
                       /\ tests[i].point.y = given[i].point.y

\* What the caller of testVisibility asked for
Caller == call.request

CallerTolerance == IF Caller.tolerance = <<>> THEN DefaultTolerance ELSE Caller.tolerance[1]

TokenAndCenter ==
    /\ Caller.object # <<>>
    /\ instanceofToken(Caller.object[1])
    /\ settings.rangeAlgorithm = "range-center"

\* C20 as stated: the wrapped test is handed tolerance 0 if and only if the
\* object is a Token and the range algorithm is CENTER.
C20_ZeroToleranceIffTokenAndCenter ==
    call.op = "testVisibilityCanvasVisibility" =>
        (call.passed.tolerance = 0 <=> TokenAndCenter)

\* C20, amended: the wrapped test is handed tolerance 0 when the object is a
\* Token and the range algorithm is CENTER, and the caller's tolerance (2 when
\* left out, and possibly 0 itself) in every other case; the point is handed
\* on as given and the object as given, null when left out.
C20_ToleranceZeroedForTokenAndCenter ==
    call.op = "testVisibilityCanvasVisibility" =>
        /\ call.passed.tolerance = IF TokenAndCenter THEN 0 ELSE CallerTolerance
        /\ call.passed.point = Caller.point
        /\ call.passed.object = IF Caller.object = <<>> THEN Null ELSE Caller.object[1]

\* A Token tested under FOUNDRY with a tolerance left out: 2 is handed on
C20_Witness ==
    /\ call.op = "testVisibilityCanvasVisibility"
    /\ instanceofToken(call.passed.object)
    /\ settings.rangeAlgorithm = "range-foundry"
    /\ Caller.tolerance = <<>>
    /\ call.passed.tolerance = DefaultTolerance

-----------------------------------------------------------------------------
(* SpecSettings: registerSettings registers the six cover triggers and the GM
   changes them, one at a time, within their registered ranges. *)

\* settings.js 226-230, 242-246, 258-262: range of the corner triggers
CornerMin == 1
CornerMax == 99

\* settings.js 274-278, 289-293, 304-308: range of the area triggers, in
\* hundredths: min 0.1, max 1, step 0.1
AreaMin == 10
AreaMax == 100
AreaStep == 10

\* settings.js 234, 250, 266, 282, 297, 312: the defaults 1, 3, 99, .5, .75, 1
CoverDefaults ==
    [cornerLow |-> 1, cornerMedium |-> 3, cornerHigh |-> 99,
     areaLow |-> 50, areaMedium |-> 75, areaHigh |-> 100]

\* The values a trigger may take: of the corner range its ends and the
\* defaults, of the area range every step
TriggerValues(name) ==
    IF name \in {"cornerLow", "cornerMedium", "cornerHigh"}
    THEN {CornerMin, 3, CornerMax}
    ELSE {v \in AreaMin .. AreaMax : (v - AreaMin) % AreaStep = 0}

\* registerSettings: each trigger has its default
InitSettings ==
    /\ settings = CoverDefaults
    /\ walls = {}
    /\ token = Undefined
    /\ source = NoSource
    /\ sweep = <<>>
    /\ call = [op |-> "registerSettings"]

\* setSetting(settingName, value), lines 13-15, for a cover trigger
SetSetting ==
    /\ \E name \in DOMAIN CoverDefaults :
          \E value \in TriggerValues(name) :
             /\ settings' = [settings EXCEPT ![name] = value]
             /\ call' = [op |-> "setSetting", name |-> name, value |-> value]
    /\ UNCHANGED <<walls, token, source, sweep>>

NextSettings == SetSetting

SpecSettings == InitSettings /\ [][NextSettings]_vars

\* C17: the cover triggers are ascending, low <= medium <= high, for the
\* corner counts and for the area fractions, with the defaults and after any
\* changes within the registered ranges.
C17_ThresholdsAscending ==
    /\ settings.cornerLow <= settings.cornerMedium
    /\ settings.cornerMedium <= settings.cornerHigh
    /\ settings.areaLow <= settings.areaMedium
    /\ settings.areaMedium <= settings.areaHigh

-----------------------------------------------------------------------------
(* The crossing test of areaTest at percentArea 0, under SpecAreaShapes *)

\* The line of sight areaTest tests at percentArea 0: simplified (line 489)
SimplifiedLos == IF source.los.type = "ClipperPaths" THEN simplify(source.los) ELSE source.los

\* The edges of the footprint, of a Rectangle or of a Polygon
FootprintEdges ==
    IterateEdges(IF token.shape.type = "Rectangle"
                 THEN RectPolygon(token.shape.rect)
                 ELSE token.shape.points)

\* Some edge of the line of sight crosses some edge of the footprint, with no
\* endpoint of either on the other's line
StrictlyCrosses ==
    \E e \in IterateEdges(SimplifiedLos.points), f \in FootprintEdges :
        lineSegmentCrosses(e[1], e[2], f[1], f[2])

\* C18: at percentArea 0 with a line of sight that is, or simplifies to, one
\* polygon, areaTest decides by the crossing test alone and reports the target
\* visible only if an edge of the line of sight strictly crosses an edge of
\* the footprint, be the footprint a Rectangle or a Polygon: edges that
\* overlap colinearly or touch with an endpoint do not count.
C18_StrictCrossingOnly ==
    (AreaShapesReturned /\ settings.percentArea = 0 /\ SimplifiedLos.type = "Polygon") =>
        /\ call.ret.path = "crossing"
        /\ call.ret.result => StrictlyCrosses

-----------------------------------------------------------------------------
(* SpecCombat: the combatTurn hook, part_001 12-41.  token holds
   canvas.tokens.placeables (for each id the users targeting the token and
   the cover it carries), source the combatant (its token, its players and
   the cover its CoverCalculator finds for each target), call the handler's
   progress: the operations it started and those not yet completed. *)

MaxTokens == 2     \* tokens in the scene

TokenIds == 1 .. MaxTokens

\* part_002 33-39: cover a token may carry, NONE and two of the levels of
\* COVER.TYPES
CoverTypes == {"none", "low", "high"}

\* An operation started and not awaited: CoverCalculator.disableAllCover(id),
\* or setTargetCoverEffect() of a CoverCalculator(combatToken, target)
CoverOperation(fn, id) == [fn |-> fn, id |-> id]

\* line 30: playerOwners.some(owner => token.targeted.has(owner))
UserTargeted(id) == source.players \cap token[id].targeted # {}

InitCombat ==
    /\ settings = Settings(0)
    /\ walls = {}
    /\ sweep = <<>>
    /\ token \in [TokenIds -> [targeted : {{}, {"gm"}, {"player"}}, cover : CoverTypes]]
    /\ \E c \in TokenIds, players \in {{}, {"player"}}, found \in [TokenIds -> CoverTypes] :
          source = [token |-> c, players |-> players, targetCover |-> found]
    /\ call = [op |-> "none", started |-> <<>>, pending |-> {}]

\* lines 13-41: the handler awaits nothing, it runs to its end starting one
\* disableAllCover for every token (line 32) and then one setTargetCoverEffect
\* for every token a player of the combatant targets (lines 37-40)
RECURSIVE CombatTurnStarts(_, _)
CombatTurnStarts(id, fn) ==
    IF id > MaxTokens THEN <<>>
    ELSE (IF fn = "disableAllCover" \/ UserTargeted(id)
          THEN <<CoverOperation(fn, id)>> ELSE <<>>)
         \o CombatTurnStarts(id + 1, fn)

CombatTurn ==
    /\ call.op = "none"
    /\ call' = [op |-> "combatTurn",
                started |-> CombatTurnStarts(1, "disableAllCover")
                            \o CombatTurnStarts(1, "setTargetCoverEffect"),
                pending |-> {CoverOperation("disableAllCover", id) : id \in TokenIds}
                            \cup {CoverOperation("setTargetCoverEffect", id) :
                                    id \in {i \in TokenIds : UserTargeted(i)}}]
    /\ UNCHANGED <<settings, walls, token, source, sweep>>

\* An operation the handler started completes: disableAllCover leaves the
\* token without cover, setTargetCoverEffect with the cover found for it.
\* Nothing in the handler orders the completions.
CoverOperationCompletes ==
    /\ \E o \in call.pending :
          /\ token' = [token EXCEPT ![o.id].cover =
                          IF o.fn = "disableAllCover" THEN "none"
                          ELSE source.targetCover[o.id]]
          /\ call' = [call EXCEPT !.pending = @ \ {o}]
    /\ UNCHANGED <<settings, walls, source, sweep>>

NextCombat == CombatTurn \/ CoverOperationCompletes

SpecCombat == InitCombat /\ [][NextCombat]_vars

\* The handler has run and everything it started has completed
CombatTurnSettled == call.op = "combatTurn" /\ call.pending = {}

\* C21: combatTurn clears the cover of every token except those a player of
\* the combatant targets, for which the cover is computed from the combatant's
\* token instead; once the handler and the operations it started have
\* completed, each targeted token carries the cover computed and no
\* untargeted token carries cover.
C21_TargetsKeepComputedCover ==
    /\ call.op = "combatTurn" =>
          \A id \in TokenIds :
             /\ UserTargeted(id) <=>
                   \E i \in DOMAIN call.started :
                      call.started[i] = CoverOperation("setTargetCoverEffect", id)
             /\ ~UserTargeted(id) <=>
                   \E i \in DOMAIN call.started :
                      call.started[i] = CoverOperation("disableAllCover", id)
    /\ CombatTurnSettled =>
          \A id \in TokenIds :
             token[id].cover = IF UserTargeted(id) THEN source.targetCover[id] ELSE "none"

\* Untargeted tokens carry no cover once everything has completed
C21_UntargetedCleared ==
    CombatTurnSettled =>
        \A id \in TokenIds : ~UserTargeted(id) => token[id].cover = "none"

\* A targeted token for which cover was found is left without cover
C21_TargetLosesCover ==
    /\ CombatTurnSettled
    /\ \E id \in TokenIds :
          /\ UserTargeted(id)
          /\ source.targetCover[id] # "none"
          /\ token[id].cover = "none"

-----------------------------------------------------------------------------
(* SpecHandler: setCoverIgnoreHandler, part_002 152-166.  settings holds
   IGNORES_COVER_HANDLER, token the placeables of canvas.tokens (for each id
   the cached _ignoresCoverType, an instance of the handler that built it),
   or no placeables while canvas.tokens is not there. *)

\* A constructor: its name, whether it has a prototype property, and the
\* classes its prototype inherits from
Handler(name, hasPrototype, ancestors) ==
    [name |-> name, hasPrototype |-> hasPrototype, ancestors |-> ancestors]

\* line 9 and 137: the class IgnoresCover, the handler at the start
IgnoresCover == Handler("IgnoresCover", TRUE, <<>>)

\* What a caller may hand over: IgnoresCover itself, a subclass, a subclass
\* of that subclass, a class of its own, an arrow function, null
Handlers ==
    {IgnoresCover,
     Handler("IgnoresCoverA", TRUE, <<"IgnoresCover">>),
     Handler("IgnoresCoverB", TRUE, <<"IgnoresCoverA", "IgnoresCover">>),
     Handler("Other", TRUE, <<>>),
     Handler("arrow", FALSE, <<>>),
     Null}

\* line 153: handler.prototype instanceof IgnoresCover, IgnoresCover.prototype
\* is in the prototype chain of handler.prototype (an undefined prototype is
\* an instance of nothing)
PrototypeInstanceofIgnoresCover(handler) ==
    /\ handler.hasPrototype
    /\ \E i \in DOMAIN handler.ancestors : handler.ancestors[i] = IgnoresCover.name

\* setCoverIgnoreHandler without line 165: the handler is installed and the
\* tokens keep what they cached
setCoverIgnoreHandlerKeepsCache(handler, current, placeables) ==
    IF handler = Null
    THEN [handler |-> current, placeables |-> placeables, warned |-> FALSE, threw |-> TRUE]
    ELSE IF ~PrototypeInstanceofIgnoresCover(handler)
    THEN [handler |-> current, placeables |-> placeables, warned |-> TRUE, threw |-> FALSE]
    ELSE [handler |-> handler, placeables |-> placeables, warned |-> FALSE, threw |-> FALSE]

\* setCoverIgnoreHandler(handler) with IGNORES_COVER_HANDLER = current and
\* the placeables of canvas.tokens: the handler and the placeables afterwards,
\* whether it warned, whether it threw (reading null.prototype, line 153)
setCoverIgnoreHandler(handler, current, placeables) ==
    IF handler = Null
    THEN [handler |-> current, placeables |-> placeables, warned |-> FALSE, threw |-> TRUE]
    ELSE IF ~PrototypeInstanceofIgnoresCover(handler)
    THEN [handler |-> current, placeables |-> placeables, warned |-> TRUE, threw |-> FALSE]
    ELSE [handler |-> handler,
          placeables |-> [id \in DOMAIN placeables |-> [_ignoresCoverType |-> Undefined]],
          warned |-> FALSE, threw |-> FALSE]

\* The handler at the start is IgnoresCover (line 137); the canvas has no
\* token layer yet, or tokens that have or have not cached their type
InitHandler ==
    /\ settings = [handler |-> IgnoresCover]
    /\ walls = {}
    /\ source = NoSource
    /\ sweep = <<>>
    /\ \/ token = <<>>
       \/ token \in [TokenIds -> [_ignoresCoverType : {Undefined, IgnoresCover}]]
    /\ call = [op |-> "none"]

SetCoverIgnoreHandlerCall ==
    /\ \E handler \in Handlers :
          \E r \in {setCoverIgnoreHandler(handler, settings.handler, token)} :
             /\ settings' = [handler |-> r.handler]
             /\ token' = r.placeables
             /\ call' = [op |-> "setCoverIgnoreHandler", handler |-> handler,
                         before |-> [handler |-> settings.handler, placeables |-> token],
                         warned |-> r.warned, threw |-> r.threw]
    /\ UNCHANGED <<walls, source, sweep>>

\* The canvas draws its tokens: placeables with nothing cached
CanvasReady ==
    /\ token = <<>>
    /\ token' = [id \in TokenIds |-> [_ignoresCoverType |-> Undefined]]
    /\ call' = [op |-> "canvasReady"]
    /\ UNCHANGED <<settings, walls, source, sweep>>

\* A token's ignoresCoverType is read: what is cached is kept, otherwise an
\* instance of the handler is built and cached
IgnoresCoverTypeRead ==
    /\ \E id \in DOMAIN token :
          /\ token' = [token EXCEPT ![id]._ignoresCoverType =
                          IF @ = Undefined THEN settings.handler ELSE @]
          /\ call' = [op |-> "ignoresCoverType", id |-> id]
    /\ UNCHANGED <<settings, walls, source, sweep>>

NextHandler == SetCoverIgnoreHandlerCall \/ CanvasReady \/ IgnoresCoverTypeRead

SpecHandler == InitHandler /\ [][NextHandler]_vars

\* C22: setCoverIgnoreHandler with a handler that is not a subclass of
\* IgnoresCover warns and leaves the handler and every token's cached
\* _ignoresCoverType as they were; with a subclass it installs the handler and
\* resets the cached _ignoresCoverType of every token on the canvas, so that
\* no token ever holds a value built by another handler than the current one.
C22_HandlerInstalledCachesReset ==
    /\ (call.op = "setCoverIgnoreHandler" /\ call.handler # Null) =>
          IF PrototypeInstanceofIgnoresCover(call.handler)
          THEN /\ ~call.warned
               /\ settings.handler = call.handler
               /\ \A id \in DOMAIN token : token[id]._ignoresCoverType = Undefined
               /\ DOMAIN token = DOMAIN call.before.placeables
          ELSE /\ call.warned
               /\ settings.handler = call.before.handler
               /\ token = call.before.placeables
    /\ \A id \in DOMAIN token :
          token[id]._ignoresCoverType \in {Undefined, settings.handler}

\* A subclass of a subclass replaces a subclass whose instances two tokens
\* had cached
C22_Witness ==
    /\ call.op = "setCoverIgnoreHandler"
    /\ call.handler # Null
    /\ call.handler.name = "IgnoresCoverB"
    /\ call.before.handler.name = "IgnoresCoverA"
    /\ settings.handler = call.handler
    /\ DOMAIN token = TokenIds
    /\ \A id \in TokenIds :
          /\ call.before.placeables[id]._ignoresCoverType = call.before.handler
          /\ token[id]._ignoresCoverType = Undefined

\* IgnoresCover itself is handed over while a subclass is installed: a
\* warning, the subclass stays and the tokens keep what they cached
C22_WitnessNotRecognised ==
    /\ call.op = "setCoverIgnoreHandler"
    /\ call.handler = IgnoresCover
    /\ call.warned
    /\ settings.handler.name = "IgnoresCoverA"
    /\ \E id \in DOMAIN token : token[id]._ignoresCoverType = settings.handler

-----------------------------------------------------------------------------
(* SpecDialog: the settings dialog, settings.js 421-471.  settings holds the
   stored values of the two algorithm settings (what getSetting reads), call
   the dialog: the values stored when it was opened, ORIGINAL_LOS_ALGORITHM
   and ORIGINAL_COVER_ALGORITHM, the values selected in the form, and the
   writes started with setSetting that have not completed yet, oldest
   first. *)

MaxChanges == 3    \* dropdown changes while the dialog is open

\* settings.js 168-171 and 197-203: choices of the two dropdowns (for the
\* cover algorithm three of the seven)
AlgorithmChoices ==
    [los |-> {"los-points", "los-area"},
     cover |-> {"cover-center-to-corners", "cover-center-to-center", "cover-area"}]

\* The settings dialog has just been opened
InitDialog ==
    /\ settings \in [los : AlgorithmChoices.los, cover : AlgorithmChoices.cover]
    /\ walls = {}
    /\ token = Undefined
    /\ source = NoSource
    /\ sweep = <<>>
    /\ call = [op |-> "open", open |-> TRUE, submitted |-> FALSE, changes |-> 0,
               opened |-> settings, form |-> settings,
               original |-> [los |-> <<>>, cover |-> <<>>], pending |-> <<>>]

\* tempUpdateLosSetting(event), lines 427-434, and tempUpdateCoverSetting,
\* lines 436-439, for the dropdown name changed to value: ORIGINAL_... takes
\* what getSetting reads now and a write of the value is started
TempUpdateSetting(name, value) ==
    [call EXCEPT !.op = "tempUpdate", !.changes = @ + 1, !.form[name] = value,
                 !.original[name] = <<settings[name]>>,
                 !.pending = Append(@, [name |-> name, value |-> value])]

\* The user picks another value in one of the dropdowns (a submitted form
\* takes no more input: the host closes it)
DropdownChange ==
    /\ call.open
    /\ ~call.submitted
    /\ call.changes < MaxChanges
    /\ \E name \in DOMAIN AlgorithmChoices :
          \E value \in AlgorithmChoices[name] \ {call.form[name]} :
             call' = TempUpdateSetting(name, value)
    /\ UNCHANGED <<settings, walls, token, source, sweep>>

\* game.settings.set of lines 13-15 completes for the oldest write
SettingWriteCompletes ==
    /\ call.pending # <<>>
    /\ settings' = [settings EXCEPT ![Head(call.pending).name] = Head(call.pending).value]
    /\ call' = [call EXCEPT !.op = "written", !.pending = Tail(@)]
    /\ UNCHANGED <<walls, token, source, sweep>>

\* _onSubmitSettingsConfig(wrapper, options), lines 463-471: both ORIGINAL_...
\* are dropped and the wrapped submit stores the values of the form
OnSubmitSettingsConfig ==
    /\ call.open
    /\ ~call.submitted
    /\ call' = [call EXCEPT !.op = "submit", !.submitted = TRUE,
                            !.original = [los |-> <<>>, cover |-> <<>>],
                            !.pending = @ \o <<[name |-> "los", value |-> call.form.los],
                                               [name |-> "cover", value |-> call.form.cover]>>]
    /\ UNCHANGED <<settings, walls, token, source, sweep>>

\* closeSettingsConfig(wrapper, options), lines 444-460: a write of each
\* ORIGINAL_... that holds a value is started, and the value dropped
CloseSettingsConfig ==
    /\ call.open
    /\ call' = [call EXCEPT
                  !.op = "close", !.open = FALSE,
                  !.original = [los |-> <<>>, cover |-> <<>>],
                  !.pending = @ \o (IF call.original.los # <<>>
                                    THEN <<[name |-> "los", value |-> call.original.los[1]]>>
                                    ELSE <<>>)
                                \o (IF call.original.cover # <<>>
                                    THEN <<[name |-> "cover", value |-> call.original.cover[1]]>>
                                    ELSE <<>>)]
    /\ UNCHANGED <<settings, walls, token, source, sweep>>

NextDialog ==
    DropdownChange \/ SettingWriteCompletes \/ OnSubmitSettingsConfig \/ CloseSettingsConfig

SpecDialog == InitDialog /\ [][NextDialog]_vars

\* The dialog is closed and every write started has completed
DialogSettled == ~call.open /\ call.pending = <<>>

\* C24: closing the dialog without submitting leaves both algorithm settings
\* at the values they had when the dialog was opened, after any number of
\* dropdown changes and once the pending writes have completed; after a
\* submit, closing keeps the values selected.
C24_CloseRestoresOpeningValues ==
    DialogSettled =>
        IF call.submitted THEN settings = call.form ELSE settings = call.opened

\* Closing without submitting after at most one change of each dropdown
\* restores the values the dialog was opened with
C24_OneChangeRestored ==
    (DialogSettled /\ ~call.submitted /\ call.changes <= 1) => settings = call.opened

\* After a submit, closing keeps the values selected
C24_SubmitKeepsSelection ==
    (DialogSettled /\ call.submitted) => settings = call.form

\* Two changes of a dropdown, the first written before the second, then a
\* close without submit: the setting is left at the first value selected
C24_RestoredToFirstSelection ==
    /\ DialogSettled
    /\ ~call.submitted
    /\ call.changes = 2
    /\ settings.los = call.opened.los
    /\ settings.cover # call.opened.cover
    /\ settings.cover # call.form.cover

-----------------------------------------------------------------------------
(* SpecSources: one call of CanvasVisibility.testVisibility for a token under
   the AREA algorithm, module.js 180-186: the host hands the same config
   { object, tests } to the detection mode of one vision source after the
   other, until one of them sees the token.  call holds the tests of the
   config, the tests of the pass under way, and what _testRange and _testLOS
   returned for the centre test in this pass. *)

MaxSources == 2    \* vision sources tested in one call

\* Vision sources at the left border, at the elevation of the token's centre:
\* of radius 2 (the centre is out of range, the point left of it is not) or
\* 3, seeing nothing of the token or all of it
SeeingSources ==
    {Source(0, 2, 4, r, PolygonShape(ColumnsPolygon(0, c))) : r \in {2, 3}, c \in {0, 4}}

\* lines 180-182: the config is built, 9 points one pixel apart
InitSources ==
    /\ \E p \in {0, PercentHalf}, range \in {"range-foundry", "range-foundry-3d"} :
          settings = DetectSettings(p, range, "los-area", FALSE)
    /\ walls = {}
    \* the token tested: its centre is (3, 2), at elevation 4
    /\ token = Token(Rect(1, 1, 4, 2), 2, 6)
    /\ sweep = RectPolygon(token.bounds)
    /\ source = NoSource
    /\ call = [op |-> "testVisibility", pass |-> 0, mode |-> "none",
               given |-> HostTests(<<3, 2>>, 1), tests |-> HostTests(<<3, 2>>, 1),
               i |-> 0, next |-> "not visible", at |-> 0, ret |-> <<>>,
               centre |-> [_testRange |-> <<>>, _testLOS |-> <<>>]]

\* The test objects of the config as they are after the passes made: objects
\* that elevatePoints handed on are those of the config (lines 305-313, 316),
\* those it built (lines 323-328) are not
ConfigTests(c) ==
    IF Len(c.tests) = Len(c.given) THEN c.tests ELSE [c.given EXCEPT ![1] = c.tests[1]]

\* lines 183-185: the host calls testVisibility of the next vision source's
\* detection mode with the config, the sources before not having seen the
\* token
VisionSourcePass ==
    /\ call.next = "not visible"
    /\ call.pass < MaxSources
    /\ source' \in SeeingSources
    /\ \E mode \in DetectionModes :
          call' = [call EXCEPT
                     !.op = "testVisibilityDetectionMode", !.pass = @ + 1, !.mode = mode,
                     !.given = ConfigTests(call),
                     !.tests = testVisibilityDetectionMode(ConfigTests(call), token,
                                                           settings).tests,
                     !.i = 1, !.next = FirstHandler(mode), !.at = 0, !.ret = <<>>,
                     !.centre = [_testRange |-> <<>>, _testLOS |-> <<>>]]
    /\ UNCHANGED <<settings, walls, token, sweep>>

\* The call record after handler returned ret for test i
AfterHandler(handler, ret) ==
    [call EXCEPT !.op = handler, !.at = call.i, !.ret = ret,
                 !.centre[handler] = IF call.i = 1 THEN ret ELSE @,
                 !.i = HostNext(call, handler, ret = <<TRUE>>).i,
                 !.next = HostNext(call, handler, ret = <<TRUE>>).next]

\* _testPoint calls _testRange for the test
SourceTestRange ==
    /\ call.next = "_testRange"
    /\ \E inRange \in BOOLEAN :
          call' = AfterHandler("_testRange",
                               testRangeDebug(token, inRange, call.tests[call.i],
                                              source, FALSE).ret)
    /\ UNCHANGED <<settings, walls, token, source, sweep>>

\* _testPoint calls _testLOS for the test
SourceTestLOS ==
    /\ call.next = "_testLOS"
    /\ \E wrapped \in BOOLEAN :
          \E o \in {testLOSDetectionMode(token, call.tests, call.i, wrapped, <<>>,
                                         source, settings, walls, sweep)} :
             /\ call' = [AfterHandler("_testLOS", o.ret) EXCEPT !.tests = o.tests]
             /\ token' = [token EXCEPT !.shape = o.shape]
    /\ UNCHANGED <<settings, walls, source, sweep>>

NextSources == VisionSourcePass \/ SourceTestRange \/ SourceTestLOS

SpecSources == InitSources /\ [][NextSources]_vars

\* _testLOS has just returned for a test that is not the centre test
NonCentreLOSReturned == call.op = "_testLOS" /\ call.at > 1

\* C23: under the AREA algorithm, what _testLOSDetectionMode returns for a
\* test that is not the centre test is the area result computed for the
\* centre test for the same vision source in the same pass: a boolean that
\* _testLOS returned for the centre in this pass, never a value left by
\* another vision source.
C23_NonCentreGetsThisSourcesResult ==
    NonCentreLOSReturned =>
        /\ call.centre._testLOS # <<>>
        /\ call.ret = call.centre._testLOS

\* When _testLOS ran for the centre test in this pass, the other tests are
\* given its result
C23_FreshWhenCentreTested ==
    (NonCentreLOSReturned /\ call.centre._testLOS # <<>>) =>
        call.ret = call.centre._testLOS

\* The second vision source sees nothing of the token and its centre is out
\* of range, so that _testLOS is not called for the centre; for the point
\* left of the centre _testLOS returns true, the result of the first source
C23_StaleFromOtherSource ==
    /\ NonCentreLOSReturned
    /\ call.pass = 2
    /\ call.centre = [_testRange |-> <<FALSE>>, _testLOS |-> <<>>]
    /\ call.ret = <<TRUE>>
    /\ call.next = "visible"
    /\ \A wrapped \in BOOLEAN :
          ~testLOSArea(source, token, wrapped, settings.percentArea, walls, sweep).result

====
